---- MODULE Spec2Model ----
(***************************************************************************)
(* The pack bundle writer of git-pack (src/git-pack/src/bundle/write):     *)
(* Bundle::write_to_directory, Bundle::write_to_directory_eagerly,         *)
(* Bundle::inner_write and new_pack_file_resolver.                         *)
(*                                                                         *)
(* A pack is a header chunk, one chunk per entry and a trailer chunk.  An  *)
(* entry is "blob" (a non-delta object), "ofs" (an OfsDelta whose base is  *)
(* the entry right before it) or "ref" (a RefDelta whose base is not part  *)
(* of the pack: a thin pack).  Hashes are ideal: the hash of a pack is the *)
(* pair of its version and its entries.                                    *)
(***************************************************************************)
EXTENDS Integers, Sequences, FiniteSets, TLC

\* Largest number of entries of an input pack.
MaxObjects == 2

\* `num_objects > 25_000` switches the eager iterator to its reading thread.
EagerThreshold == 25000

\* The object count a truncated input claims in its header.
BigCount == EagerThreshold + 1

EntryKinds == {"blob", "ofs", "ref"}

VARIABLES
    cfg,               \* entry point, directory, thin-pack lookup, object database, reader
    input,             \* the input pack: header, entries, tail
    pc,                \* position of the calling thread
    rpc,               \* position of the eager reading thread
    should_interrupt,  \* the shared AtomicBool
    intr_at,           \* history: where the flag was set
    read_pos,          \* chunks read from the input so far
    pulled,            \* entries parsed by BytesToEntriesIter
    it_done,           \* the entry iterator returned an error or its last entry
    chunk,             \* items collected by the reading thread
    queue,             \* items sent to the calling thread
    emitted,           \* entries the index writer has received
    trailer,           \* the pack hash seen with the last entry
    data_file,         \* content of the pack temp file
    mmap,              \* the read-only map of the pack temp file
    traversed,         \* tree nodes resolved so far
    index_file,        \* content of the index temp file
    outcome,           \* the index writer's Outcome
    dir,               \* final files in the target directory
    tmp,               \* temp files that exist
    result,            \* what the entry point returned
    info,              \* paths named by progress.info messages
    run,               \* 1: first run, 2: second run on the same input
    ref                \* result and directory of the first run

runVars == <<pc, rpc, should_interrupt, intr_at, read_pos, pulled, it_done, chunk,
             queue, emitted, trailer, data_file, mmap, traversed, index_file,
             outcome, dir, tmp, result, info>>

\* traverse_with_index (src/git-pack/src/index/traverse/with_index.rs)
VARIABLES
    check,             \* Options::check, the SafetyCheck level
    pack,              \* the pack to traverse: its checksum and its tree nodes
    vpc,               \* position of the verification task
    tpc,               \* position of the traversal task
    res,               \* `res` of the verification closure
    verify_result,     \* what the verification task returned to the join
    traversal_result,  \* what the traversal task returned to the join
    node,              \* tree nodes the traversal has handled
    ignored,           \* nodes named by an "Ignoring decode error" message
    first_error,       \* history: the task whose error came first in time
    ret                \* what traverse_with_index returned

traverseVars == <<check, pack, vpc, tpc, res, verify_result, traversal_result, node,
                  ignored, first_error, ret>>

\* index::write::encode::write_to (src/git-pack/src/index/write/encode.rs)
VARIABLES
    entries_sorted_by_oid,  \* the entries handed to write_to
    pack_hash,              \* the pack hash handed to write_to
    wpc,                    \* position inside write_to
    out,                    \* the sections written so far
    index_hash              \* what write_to returned

encodeVars == <<entries_sorted_by_oid, pack_hash, wpc, out, index_hash>>

\* write_to on lists too long to spell out: the list is kept as runs of entries
\* with large and with small offsets, the output as the names of its sections.
VARIABLES
    runs,           \* entries_sorted_by_oid as runs: [large, n]
    cpc,            \* position inside write_to
    written,        \* the sections written in full so far
    offsets64_len,  \* offsets64.len()
    stored          \* the indices into offsets64 written with the high bit: the largest

capacityVars == <<runs, cpc, written, offsets64_len, stored>>

\* cache::delta::Tree: from_offsets_in_pack and traverse
VARIABLES
    sorted_entries,  \* the entries handed to from_offsets_in_pack
    tree,            \* the tree it built
    bpc,             \* position of the closure that builds and traverses the tree
    stacks,          \* per worker: the nodes of its subtree it still has to visit
    next_root,       \* the first root no worker has taken
    processed,       \* the invocations of the processor, oldest first
    stopped,         \* the workers that saw the flag set
    tresult          \* what the build or the traversal returned

treeVars == <<sorted_entries, tree, bpc, stacks, next_root, processed, stopped, tresult>>

\* util::CountBytes (src/git-index/src/write.rs)
VARIABLES
    count,   \* CountBytes::count, a u32 as [hi, lo] split at bit 31
    inner,   \* the inner writer: the bytes it reported as written, its flushes
    cret,    \* what the last call on the CountBytes returned
    clog     \* history: the calls so far and the last one

countVars == <<count, inner, cret, clog>>

\* file::Transaction::commit (src/git-ref/src/store/file/transaction/commit.rs)
VARIABLES
    updates,             \* self.updates: the prepared edits, each with its lock
    packed_refs,         \* self.packed_refs: how the transaction uses packed-refs
    packed_transaction,  \* self.packed_transaction is Some
    fpc,                 \* the loop commit is in
    change_at,           \* the index of `change` in that loop
    events,              \* history: what commit did to files and locks, oldest first
    commit_result        \* what commit returned

fileVars == <<updates, packed_refs, packed_transaction, fpc, change_at, events,
              commit_result>>

\* packed::Transaction (src/git-ref/src/store/packed/transaction.rs)
VARIABLES
    buffer,            \* self.buffer: the packed-refs file as it was read, if any
    given,             \* the edits handed to prepare
    edits,             \* self.edits
    lock,              \* self.lock and self.closed_lock: the state of the lock file
    lock_file,         \* the lines written into the lock file
    packed_refs_file,  \* the packed-refs file on disk
    ppc,               \* the next call on the transaction
    pret               \* what the last call returned

packedVars == <<buffer, given, edits, lock, lock_file, packed_refs_file, ppc, pret>>

\* helper::Cascade::invoke as src/git-credentials/tests/helper/cascade.rs uses it
VARIABLES
    programs,      \* the helpers of the cascade, in the configured order
    next_program,  \* the index of the helper that is invoked next
    ctx,           \* the credentials gathered so far: username, password, quit
    invoked,       \* history: the helpers that were invoked, oldest first
    hpc,           \* the cascade runs or has returned
    identity       \* what invoke returned: an account or nothing

cascadeVars == <<programs, next_program, ctx, invoked, hpc, identity>>

\* digest_statistics of src/git-pack/src/index/traverse/with_index.rs
VARIABLES
    roots,     \* traverse::Outcome.roots: the data of the base objects
    children,  \* traverse::Outcome.children: the data of the deltas
    digested,      \* how many items of roots.iter().chain(children.iter()) the loop has had
    stats,     \* res: the statistics being put together
    spc        \* "loop", "divide", "returned" or "panic"

statsVars == <<roots, children, digested, stats, spc>>

\* The handles on the pack temp file (SharedTempFile) of the bundle writer
VARIABLES
    call,       \* entry point, lookup function, directory and number of objects
    strong,     \* Arc::strong_count(&data_file)
    upc,        \* where the calling thread is
    reader,     \* where the reading thread of the eager iterator is, or "off"
    remaining,  \* entries the boxed iterator has not yielded yet
    partial,    \* entries in the chunk the reading thread is filling
    channel,    \* the sizes of the chunks in the channel, oldest first
    got         \* entries the index writer has taken

handleVars == <<call, strong, upc, reader, remaining, partial, channel, got>>

\* The components that stand apart from the pack writer.
lateVars == <<countVars, fileVars, packedVars, cascadeVars, statsVars, handleVars>>

\* What the steps of each of them leave alone among them.
countOthers == <<fileVars, packedVars, cascadeVars, statsVars, handleVars>>

fileOthers == <<countVars, packedVars, cascadeVars, statsVars, handleVars>>

packedOthers == <<countVars, fileVars, cascadeVars, statsVars, handleVars>>

cascadeOthers == <<countVars, fileVars, packedVars, statsVars, handleVars>>

statsOthers == <<countVars, fileVars, packedVars, cascadeVars, handleVars>>

handleOthers == <<countVars, fileVars, packedVars, cascadeVars, statsVars>>

\* What neither the bundle writer, traverse_with_index nor the write_to of short
\* lists touches.
moreVars == <<capacityVars, treeVars, lateVars>>

\* What the bundle writer never touches.
otherVars == <<traverseVars, encodeVars, moreVars>>

\* What only the bundle writer touches: all of its state but the shared flag.
bundleVars == <<cfg, input, run, ref, pc, rpc, intr_at, read_pos, pulled, it_done,
                chunk, queue, emitted, trailer, data_file, mmap, traversed,
                index_file, outcome, dir, tmp, result, info>>

vars == <<cfg, input, run, ref, runVars, otherVars>>

----------------------------------------------------------------------------
(* Values *)

NoHash == [v |-> 0, es |-> <<>>]

\* The object hash over a pack's bytes: header (version, count) and entries.
PackHash(version, entries) == [v |-> version, es |-> entries]

Chunk(t, v, n, k, h) == [t |-> t, v |-> v, n |-> n, k |-> k, h |-> h]

HeaderChunk(version, objects) == Chunk("hdr", version, objects, "", NoHash)

EntryChunk(kind) == Chunk("obj", 0, 0, kind, NoHash)

TrailerChunk(h) == Chunk("trl", 0, 0, "", h)

SeqsUpTo(S, n) == UNION {[1..k -> S] : k \in 0..n}

\* header: pack version 2 or 3, 0 for a bad signature or version.
\* tail: "ok" a correct trailer, "bad" a corrupted trailer, "cut" the stream ends
\* after the entries although the header announces BigCount objects.
\* Files the writer left behind may also be read as input: "none" is a stream
\* that ends after the entries its header announces, "void" one without a byte.
Inputs ==
    {[header |-> h, entries |-> es, tail |-> t] :
        h \in {2, 3}, es \in SeqsUpTo(EntryKinds, MaxObjects), t \in {"ok", "bad", "cut"}}
    \cup {[header |-> 0, entries |-> <<>>, tail |-> "ok"]}

Configs ==
    {c \in [entry : {"write_to_directory", "write_to_directory_eagerly"},
            directory : BOOLEAN, thin : BOOLEAN, odb : BOOLEAN,
            reads : {"short", "full"}] : c.odb => c.thin}

Count == IF input.tail = "cut" THEN BigCount ELSE Len(input.entries)

InputChunk(i) ==
    IF i = 1 THEN HeaderChunk(input.header, Count)
    ELSE IF i <= 1 + Len(input.entries) THEN EntryChunk(input.entries[i - 1])
    ELSE TrailerChunk(IF input.tail = "ok"
                        THEN PackHash(input.header, input.entries)
                        ELSE NoHash)

Total ==
    IF input.tail = "void" THEN 0
    ELSE 1 + Len(input.entries) + (IF input.tail \in {"cut", "none"} THEN 0 ELSE 1)

Eager == cfg.entry = "write_to_directory_eagerly"

Terminal == pc \in {"Done", "Failed"}

Ok(o, dp, ip, kp) ==
    [ok |-> TRUE, err |-> "", index |-> o, pack_version |-> input.header,
     data_path |-> dp, index_path |-> ip, keep_path |-> kp, mentions |-> {}]

NoOutcome == [data_hash |-> NoHash, index_hash |-> NoHash, num_objects |-> 0]

Err(kind) ==
    [ok |-> FALSE, err |-> kind, index |-> NoOutcome, pack_version |-> 0,
     data_path |-> <<>>, index_path |-> <<>>, keep_path |-> <<>>, mentions |-> {}]

NoResult == Err("")

\* directory.join(format!("pack-{}.pack", hash)) and with_extension(ext)
Path(hash, ext) == <<[stem |-> hash, ext |-> ext]>>

File(hash, ext, content) == [stem |-> hash, ext |-> ext, content |-> content]

----------------------------------------------------------------------------
(* State after the arguments are bound and before the first statement *)

RunInit ==
    /\ pc = "start"
    /\ rpc = "off"
    /\ should_interrupt = FALSE
    /\ intr_at = [pc |-> "", polls_ahead |-> FALSE]
    /\ read_pos = 0
    /\ pulled = 0
    /\ it_done = FALSE
    /\ chunk = <<>>
    /\ queue = <<>>
    /\ emitted = <<>>
    /\ trailer = NoHash
    /\ data_file = <<>>
    /\ mmap = <<>>
    /\ traversed = 0
    /\ index_file = <<>>
    /\ outcome = NoOutcome
    /\ dir = {}
    /\ tmp = {}
    /\ result = NoResult
    /\ info = {}

\* traverse_with_index has not been called.
TraverseIdle ==
    /\ check = "All"
    /\ pack = [verify |-> "", nodes |-> <<>>]
    /\ vpc = "off"
    /\ tpc = "off"
    /\ res = ""
    /\ verify_result = ""
    /\ traversal_result = ""
    /\ node = 0
    /\ ignored = {}
    /\ first_error = ""
    /\ ret = ""

\* write_to has not been called.
EncodeIdle ==
    /\ entries_sorted_by_oid = <<>>
    /\ pack_hash = NoHash
    /\ wpc = "off"
    /\ out = <<>>
    /\ index_hash = NoHash

\* write_to has not been called on a long list.
CapacityIdle ==
    /\ runs = <<>>
    /\ cpc = "off"
    /\ written = <<>>
    /\ offsets64_len = [hi |-> 0, lo |-> 0]
    /\ stored = <<>>

\* Largest thread_limit.
MaxWorkers == 2

Workers == 1..MaxWorkers

\* traverse_with_index has not been called on a list of entries.
TreeIdle ==
    /\ sorted_entries = <<>>
    /\ tree = [err |-> "", roots |-> <<>>, children |-> <<>>]
    /\ bpc = "off"
    /\ stacks = [w \in Workers |-> <<>>]
    /\ next_root = 1
    /\ processed = <<>>
    /\ stopped = {}
    /\ tresult = ""

\* No CountBytes has been made.
CountIdle ==
    /\ count = [hi |-> 0, lo |-> 0]
    /\ inner = [written |-> [hi |-> 0, lo |-> 0], flushes |-> 0]
    /\ cret = "off"
    /\ clog = [calls |-> 0, flushes |-> 0, all_ok |-> TRUE, op |-> "",
               before |-> [hi |-> 0, lo |-> 0], n |-> [hi |-> 0, lo |-> 0]]

\* No transaction is being committed.
FileIdle ==
    /\ updates = <<>>
    /\ packed_refs = "DeletionsOnly"
    /\ packed_transaction = FALSE
    /\ fpc = "off"
    /\ change_at = 0
    /\ events = <<>>
    /\ commit_result = ""

\* No packed-refs transaction has been made.
PackedIdle ==
    /\ buffer = [some |-> FALSE, refs |-> <<>>, bad_at |-> 0]
    /\ given = <<>>
    /\ edits = [some |-> FALSE, list |-> <<>>]
    /\ lock = "none"
    /\ lock_file = <<>>
    /\ packed_refs_file = [exists |-> FALSE, lines |-> <<>>]
    /\ ppc = "off"
    /\ pret = ""

\* No cascade has been invoked.
CascadeIdle ==
    /\ programs = <<>>
    /\ next_program = 0
    /\ ctx = [username |-> "", password |-> "", quit |-> FALSE]
    /\ invoked = <<>>
    /\ hpc = "off"
    /\ identity = [some |-> FALSE, username |-> "", password |-> ""]

\* index::traverse::Statistics::default()
DefaultStatistics ==
    [average |-> [decompressed_size |-> 0, compressed_size |-> 0,
                  object_size |-> 0, num_deltas |-> 0],
     objects_per_chain_length |-> << >>,
     total_compressed_entries_size |-> 0,
     total_decompressed_entries_size |-> 0,
     total_object_size |-> 0,
     num_commits |-> 0, num_trees |-> 0, num_tags |-> 0, num_blobs |-> 0]

\* digest_statistics has not been called.
StatsIdle ==
    /\ roots = <<>>
    /\ children = <<>>
    /\ digested = 0
    /\ stats = DefaultStatistics
    /\ spc = "off"

\* No call whose handles are followed.
HandleIdle ==
    /\ call = [entry |-> "write_to_directory", thin |-> FALSE, directory |-> FALSE,
               num_objects |-> 0]
    /\ strong = 0
    /\ upc = "off"
    /\ reader = "off"
    /\ remaining = 0
    /\ partial = 0
    /\ channel = <<>>
    /\ got = 0

LateIdle == CountIdle /\ FileIdle /\ PackedIdle /\ CascadeIdle /\ StatsIdle /\ HandleIdle

CountOthersIdle == FileIdle /\ PackedIdle /\ CascadeIdle /\ StatsIdle /\ HandleIdle

FileOthersIdle == CountIdle /\ PackedIdle /\ CascadeIdle /\ StatsIdle /\ HandleIdle

PackedOthersIdle == CountIdle /\ FileIdle /\ CascadeIdle /\ StatsIdle /\ HandleIdle

CascadeOthersIdle == CountIdle /\ FileIdle /\ PackedIdle /\ StatsIdle /\ HandleIdle

StatsOthersIdle == CountIdle /\ FileIdle /\ PackedIdle /\ CascadeIdle /\ HandleIdle

HandleOthersIdle == CountIdle /\ FileIdle /\ PackedIdle /\ CascadeIdle /\ StatsIdle

MoreIdle == CapacityIdle /\ TreeIdle /\ LateIdle

Init ==
    /\ MoreIdle
    /\ cfg \in Configs
    /\ input \in Inputs
    /\ run = 1
    /\ ref = [result |-> NoResult, dir |-> {}]
    /\ RunInit
    /\ TraverseIdle
    /\ EncodeIdle

----------------------------------------------------------------------------
(* The entry iterator: BufReader over interrupt::Read, the tee, thin-pack   *)
(* resolution                                                               *)

\* The reader without interrupt::Read around it: no poll of the flag.
Fill_NoPoll(need) ==
    IF read_pos >= need THEN [err |-> "", pos |-> read_pos]
    ELSE IF need > Total THEN [err |-> "Eof", pos |-> Total]
    ELSE [err |-> "", pos |-> IF cfg.reads = "full" THEN Total ELSE need]

\* interrupt::Read only around the reader of the thin-pack branch.
Fill_PollOnlyWithLookup(need) ==
    IF read_pos >= need THEN [err |-> "", pos |-> read_pos]
    ELSE IF cfg.thin /\ should_interrupt THEN [err |-> "Interrupted", pos |-> read_pos]
    ELSE IF need > Total THEN [err |-> "Eof", pos |-> Total]
    ELSE [err |-> "", pos |-> IF cfg.reads = "full" THEN Total ELSE need]

\* BufReader::fill_buf over interrupt::Read: no read while the buffer holds the
\* chunks up to `need`; otherwise the flag is polled and the reader delivers one
\* chunk per call ("short") or all it has ("full"); a read at the end of the
\* stream is an unexpected end of file.
Fill(need) ==
    IF read_pos >= need THEN [err |-> "", pos |-> read_pos]
    ELSE IF should_interrupt THEN [err |-> "Interrupted", pos |-> read_pos]
    ELSE IF need > Total THEN [err |-> "Eof", pos |-> Total]
    ELSE [err |-> "", pos |-> IF cfg.reads = "full" THEN Total ELSE need]

\* PassThrough::read copies every byte it read to the pack temp file.  Only the
\* branch without a lookup function wraps the reader in a PassThrough.
Mirror(pos) ==
    IF cfg.thin THEN data_file ELSE [i \in 1..pos |-> InputChunk(i)]

\* An entry as the iterator yields it: its kind, its pack offset counted in
\* entries (the header lies at 0), and the pack offset of its base where the
\* resolver has set it (0 elsewhere).
OkItem(kind, pack_offset, base_offset) ==
    [ok |-> TRUE, kind |-> kind, pack_offset |-> pack_offset, base_offset |-> base_offset]

ErrItem(kind) == [ok |-> FALSE, kind |-> kind]

\* How many entries the resolver has put in front of the n-th input entry's
\* successor: one for every RefDelta it resolved.
Inserted(n) ==
    IF cfg.thin /\ cfg.odb
    THEN Cardinality({j \in 1..n : j <= Len(input.entries) /\ input.entries[j] = "ref"})
    ELSE 0

\* The RefDelta goes out as it came in, behind the base that was looked up.
Resolve_KeepsRefDelta(e) ==
    LET at == pulled + 1 + Inserted(pulled)
    IN IF cfg.thin /\ e = "ref"
       THEN IF cfg.odb THEN <<OkItem("blob", at, 0), OkItem("ref", at + 1, 0)>>
                       ELSE <<ErrItem("UnresolvedRefDelta")>>
       ELSE <<OkItem(e, at, 0)>>

\* LookupRefDeltaObjectsIter: a RefDelta whose base is not in the pack becomes
\* the base found by the lookup, at the offset the delta would have had, and
\* right behind it the delta as OfsDelta of that base; every later entry moves
\* back by what was put in.
Resolve(e) ==
    LET at == pulled + 1 + Inserted(pulled)
    IN IF cfg.thin /\ e = "ref"
       THEN IF cfg.odb THEN <<OkItem("blob", at, 0), OkItem("ofs", at + 1, at)>>
                       ELSE <<ErrItem("UnresolvedRefDelta")>>
       ELSE <<OkItem(e, at, 0)>>

WrittenEntries(data) == [i \in 1..(Len(data) - 1) |-> data[i + 1].k]

\* EntriesToBytesIter::write_header_and_digest: the header with the final count
\* and the trailer over what was written.
Finalise(data) ==
    <<HeaderChunk(input.header, Len(data) - 1)>> \o Tail(data)
        \o <<TrailerChunk(PackHash(input.header, WrittenEntries(data)))>>

\* EntriesToBytesIter over a LockWriter of the pack temp file: only
\* write_to_directory wraps the resolved entries in it.
HasEntryWriter == cfg.thin /\ ~Eager

EntriesToBytes(data, items, last) ==
    LET started == IF data = <<>> THEN <<HeaderChunk(input.header, 0)>> ELSE data
        body == started \o [i \in 1..Len(items) |-> EntryChunk(items[i].kind)]
    IN IF last THEN Finalise(body) ELSE body

Exhausted == it_done \/ pulled = Count

\* One call of next() on the iterator stack built by the entry point.
Pull ==
    LET last == pulled + 1 = Count
        f == Fill(pulled + 2 + (IF last THEN 1 ELSE 0))
        bad == IF f.err # "" THEN f.err
               ELSE IF last /\ input.tail = "bad" THEN "ChecksumMismatch"
               ELSE ""
        items == IF bad # "" THEN <<ErrItem(bad)>> ELSE Resolve(input.entries[pulled + 1])
        failed == ~items[1].ok
        data == IF HasEntryWriter /\ ~failed
                THEN EntriesToBytes(data_file, items, last)
                ELSE Mirror(f.pos)
    IN [items |-> items,
        pos |-> f.pos,
        pulled |-> IF f.err # "" THEN pulled ELSE pulled + 1,
        done |-> failed,
        data |-> data,
        trailer |-> IF failed \/ ~last THEN trailer
                    ELSE IF HasEntryWriter THEN data[Len(data)].h
                    ELSE PackHash(input.header, input.entries)]

----------------------------------------------------------------------------
(* Index creation: the delta tree *)

\* Adding an entry to the tree: a delta needs its base among the entries before
\* it; a RefDelta that reached the index writer has no base in the pack.
TreeError(seen, kind) ==
    IF kind = "ref" THEN "MissingBase"
    ELSE IF kind = "ofs" /\ seen = <<>> THEN "MissingBase"
    ELSE ""

RECURSIVE AddAll(_, _)
AddAll(seen, items) ==
    IF items = <<>> THEN [err |-> "", seen |-> seen]
    ELSE IF ~Head(items).ok THEN [err |-> Head(items).kind, seen |-> seen]
    ELSE IF TreeError(seen, Head(items).kind) # ""
         THEN [err |-> TreeError(seen, Head(items).kind), seen |-> seen]
    ELSE AddAll(Append(seen, Head(items).kind), Tail(items))

----------------------------------------------------------------------------
(* Steps of the calling thread *)

\* Temp files that outlive their handles (AutoRemove::Tempfile forgotten).
Fail_KeepsTempFiles(kind) ==
    /\ pc' = "Failed"
    /\ result' = Err(kind)
    /\ tmp' = tmp

\* A failing statement returns through `?`: the handles still held by the
\* calling thread are dropped and their temp files are removed with them.  The
\* pack temp file lives on while the reading thread holds its clone.
Fail(kind) ==
    /\ pc' = "Failed"
    /\ result' = Err(kind)
    /\ tmp' = IF rpc = "reading" THEN tmp \cap {"data"} ELSE {}

\* git_tempfile::new for the pack temp file, in the directory or in temp_dir()
CreateDataFile ==
    /\ pc = "start"
    /\ pc' = "header"
    /\ tmp' = tmp \cup {"data"}
    /\ UNCHANGED <<otherVars, cfg, input, run, ref, rpc, should_interrupt, intr_at, read_pos,
                   pulled, it_done, chunk, queue, emitted, trailer, data_file, mmap,
                   traversed, index_file, outcome, dir, result, info>>

CreateDataFileFails ==
    /\ pc = "start"
    /\ Fail("Io")
    /\ UNCHANGED <<otherVars, cfg, input, run, ref, rpc, should_interrupt, intr_at, read_pos,
                   pulled, it_done, chunk, queue, emitted, trailer, data_file, mmap,
                   traversed, index_file, outcome, dir, info>>

\* An index temp file also without a directory.
AfterIterator_AlwaysIndexFile == "create_index"

AfterIterator == IF cfg.directory THEN "create_index" ELSE "stream"

\* BytesToEntriesIter::new_from_header(buffered_pack, ..)?
NewFromHeader ==
    /\ pc = "header"
    /\ LET f == Fill(1)
           bad == IF f.err # "" THEN f.err
                  ELSE IF input.header = 0 THEN "PackHeaderMismatch"
                  ELSE ""
       IN /\ read_pos' = f.pos
          /\ data_file' = Mirror(f.pos)
          /\ IF bad # ""
             THEN Fail(bad)
             ELSE /\ pc' = IF Eager THEN "eager_iter" ELSE AfterIterator
                  /\ UNCHANGED <<result, tmp>>
    /\ UNCHANGED <<otherVars, cfg, input, run, ref, rpc, should_interrupt, intr_at, pulled,
                   it_done, chunk, queue, emitted, trailer, mmap, traversed,
                   index_file, outcome, dir, info>>

\* EagerIterIf::new(move || num_objects > 25_000, pack_entries_iter, 5_000, 5)
EagerIterIf ==
    /\ pc = "eager_iter"
    /\ rpc' = IF Count > EagerThreshold THEN "reading" ELSE "off"
    /\ pc' = AfterIterator
    /\ UNCHANGED <<otherVars, cfg, input, run, ref, should_interrupt, intr_at, read_pos, pulled,
                   it_done, chunk, queue, emitted, trailer, data_file, mmap,
                   traversed, index_file, outcome, dir, tmp, result, info>>

\* git_tempfile::new(directory, ..) for the index, only with a directory
CreateIndexFile ==
    /\ pc = "create_index"
    /\ pc' = "stream"
    /\ tmp' = tmp \cup {"index"}
    /\ UNCHANGED <<otherVars, cfg, input, run, ref, rpc, should_interrupt, intr_at, read_pos,
                   pulled, it_done, chunk, queue, emitted, trailer, data_file, mmap,
                   traversed, index_file, outcome, dir, result, info>>

CreateIndexFileFails ==
    /\ pc = "create_index"
    /\ Fail("Io")
    /\ UNCHANGED <<otherVars, cfg, input, run, ref, rpc, should_interrupt, intr_at, read_pos,
                   pulled, it_done, chunk, queue, emitted, trailer, data_file, mmap,
                   traversed, index_file, outcome, dir, info>>

\* The index writer takes the next item of pack_entries_iter, read on the
\* calling thread, and adds its entries to the tree.
NextEntry ==
    /\ pc = "stream"
    /\ rpc = "off"
    /\ IF Exhausted
       THEN /\ pc' = "resolver"
            /\ data_file' = IF HasEntryWriter /\ data_file = <<>>
                            THEN Finalise(<<HeaderChunk(input.header, 0)>>)
                            ELSE data_file
            /\ UNCHANGED <<read_pos, pulled, it_done, trailer, emitted, result, tmp>>
       ELSE LET p == Pull
                a == AddAll(emitted, p.items)
            IN /\ read_pos' = p.pos
               /\ pulled' = p.pulled
               /\ it_done' = p.done
               /\ trailer' = p.trailer
               /\ data_file' = p.data
               /\ emitted' = a.seen
               /\ IF a.err # ""
                  THEN Fail(a.err)
                  ELSE UNCHANGED <<pc, result, tmp>>
    /\ UNCHANGED <<otherVars, cfg, input, run, ref, rpc, should_interrupt, intr_at, chunk, queue,
                   mmap, traversed, index_file, outcome, dir, info>>

\* The same with the reading thread: the item comes out of the channel, and
\* the iterator ends when the thread has hung up.
NextEntryFromThread ==
    /\ pc = "stream"
    /\ rpc # "off"
    /\ queue # <<>> \/ rpc = "done"
    /\ IF queue = <<>>
       THEN /\ pc' = "resolver"
            /\ UNCHANGED <<queue, emitted, result, tmp>>
       ELSE LET a == AddAll(emitted, <<Head(queue)>>)
            IN /\ queue' = Tail(queue)
               /\ emitted' = a.seen
               /\ IF a.err # ""
                  THEN Fail(a.err)
                  ELSE UNCHANGED <<pc, result, tmp>>
    /\ UNCHANGED <<otherVars, cfg, input, run, ref, rpc, should_interrupt, intr_at, read_pos,
                   pulled, it_done, chunk, trailer, data_file, mmap, traversed,
                   index_file, outcome, dir, info>>

\* new_pack_file_resolver: lock, flush, map the pack temp file read-only
MakeResolver ==
    /\ pc = "resolver"
    /\ mmap' = data_file
    /\ pc' = IF emitted = <<>> THEN "encode" ELSE "traverse"
    /\ UNCHANGED <<otherVars, cfg, input, run, ref, rpc, should_interrupt, intr_at, read_pos,
                   pulled, it_done, chunk, queue, emitted, trailer, data_file,
                   traversed, index_file, outcome, dir, tmp, result, info>>

MakeResolverFails ==
    /\ pc = "resolver"
    /\ Fail("Io")
    /\ UNCHANGED <<otherVars, cfg, input, run, ref, rpc, should_interrupt, intr_at, read_pos,
                   pulled, it_done, chunk, queue, emitted, trailer, data_file, mmap,
                   traversed, index_file, outcome, dir, info>>

\* pack_data_lookup: mapped_file.get(range) of the entry at tree position i
Lookup(i) == i + 1 <= Len(mmap) /\ mmap[i + 1] = EntryChunk(emitted[i])

\* One tree node: the flag is polled, the entry's bytes come out of the map.
TraverseNode ==
    /\ pc = "traverse"
    /\ IF should_interrupt THEN Fail("Interrupted") /\ UNCHANGED traversed
       ELSE IF ~Lookup(traversed + 1) THEN Fail("Traversal") /\ UNCHANGED traversed
       ELSE /\ traversed' = traversed + 1
            /\ pc' = IF traversed + 1 = Len(emitted) THEN "encode" ELSE "traverse"
            /\ UNCHANGED <<result, tmp>>
    /\ UNCHANGED <<otherVars, cfg, input, run, ref, rpc, should_interrupt, intr_at, read_pos,
                   pulled, it_done, chunk, queue, emitted, trailer, data_file, mmap,
                   index_file, outcome, dir, info>>

\* The pack hash of the index: the trailer seen with the last entry, or the hash
\* of the header alone for a pack without entries.
DataHash == IF emitted = <<>> THEN PackHash(input.header, <<>>) ELSE trailer

IndexHash(ids, hash) ==
    [v |-> hash.v, es |-> <<"idx">> \o hash.es \o <<"ids">> \o ids]

IndexOutcome ==
    [data_hash |-> DataHash, index_hash |-> IndexHash(emitted, DataHash),
     num_objects |-> Len(emitted)]

IndexBytes == <<Chunk("idx", 2, Len(emitted), "", IndexHash(emitted, DataHash))>>

\* The index is encoded into the index temp file, or into io::sink() without a
\* directory, where inner_write returns right away.
WriteIndex ==
    /\ pc = "encode"
    /\ outcome' = IndexOutcome
    /\ IF cfg.directory
       THEN /\ index_file' = IndexBytes
            /\ pc' = "write_keep"
            /\ UNCHANGED <<result, tmp>>
       ELSE /\ pc' = "Done"
            /\ result' = Ok(IndexOutcome, <<>>, <<>>, <<>>)
            /\ tmp' = {}
            /\ UNCHANGED index_file
    /\ UNCHANGED <<otherVars, cfg, input, run, ref, rpc, should_interrupt, intr_at, read_pos,
                   pulled, it_done, chunk, queue, emitted, trailer, data_file, mmap,
                   traversed, dir, info>>

WriteIndexFails ==
    /\ pc = "encode"
    /\ cfg.directory
    /\ Fail("Io")
    /\ UNCHANGED <<otherVars, cfg, input, run, ref, rpc, should_interrupt, intr_at, read_pos,
                   pulled, it_done, chunk, queue, emitted, trailer, data_file, mmap,
                   traversed, index_file, outcome, dir, info>>

Replace(files, f) == {g \in files : g.stem # f.stem \/ g.ext # f.ext} \cup {f}

\* The .keep file is not written before the pack is moved.
WriteKeep_Skipped ==
    /\ pc = "write_keep"
    /\ pc' = "persist_pack"
    /\ UNCHANGED <<otherVars, cfg, input, run, ref, rpc, should_interrupt, intr_at, read_pos,
                   pulled, it_done, chunk, queue, emitted, trailer, data_file, mmap,
                   traversed, index_file, outcome, dir, tmp, result, info>>

\* std::fs::write(&keep_path, b"")?
WriteKeep ==
    /\ pc = "write_keep"
    /\ dir' = Replace(dir, File(outcome.data_hash, "keep", <<>>))
    /\ pc' = "persist_pack"
    /\ UNCHANGED <<otherVars, cfg, input, run, ref, rpc, should_interrupt, intr_at, read_pos,
                   pulled, it_done, chunk, queue, emitted, trailer, data_file, mmap,
                   traversed, index_file, outcome, tmp, result, info>>

WriteKeepFails ==
    /\ pc = "write_keep"
    /\ Fail("Io")
    /\ UNCHANGED <<otherVars, cfg, input, run, ref, rpc, should_interrupt, intr_at, read_pos,
                   pulled, it_done, chunk, queue, emitted, trailer, data_file, mmap,
                   traversed, index_file, outcome, dir, info>>

\* The pack is left for later and the index is moved first.
PersistPack_Skipped ==
    /\ pc = "persist_pack"
    /\ pc' = "persist_index"
    /\ UNCHANGED <<otherVars, cfg, input, run, ref, rpc, should_interrupt, intr_at, read_pos,
                   pulled, it_done, chunk, queue, emitted, trailer, data_file, mmap,
                   traversed, index_file, outcome, dir, tmp, result, info>>

\* Arc::try_unwrap(data_file)..into_inner()..persist(&data_path)?
PersistPack ==
    /\ pc = "persist_pack"
    /\ dir' = Replace(dir, File(outcome.data_hash, "pack", data_file))
    /\ tmp' = tmp \ {"data"}
    /\ pc' = "persist_index"
    /\ UNCHANGED <<otherVars, cfg, input, run, ref, rpc, should_interrupt, intr_at, read_pos,
                   pulled, it_done, chunk, queue, emitted, trailer, data_file, mmap,
                   traversed, index_file, outcome, result, info>>

\* The flush of into_inner() or the rename of persist() fails.
PersistPackFails ==
    /\ pc = "persist_pack"
    /\ \E kind \in {"Flush", "PersistPack"} : Fail(kind)
    /\ UNCHANGED <<otherVars, cfg, input, run, ref, rpc, should_interrupt, intr_at, read_pos,
                   pulled, it_done, chunk, queue, emitted, trailer, data_file, mmap,
                   traversed, index_file, outcome, dir, info>>

\* The index named after its own hash instead of the pack's.
PersistIndex_NamedByIndexHash ==
    /\ pc = "persist_index"
    /\ dir' = Replace(dir, File(outcome.index_hash, "idx", index_file))
    /\ tmp' = tmp \ {"index"}
    /\ pc' = "Done"
    /\ result' = Ok(outcome, Path(outcome.data_hash, "pack"),
                    Path(outcome.index_hash, "idx"), Path(outcome.data_hash, "keep"))
    /\ UNCHANGED <<otherVars, cfg, input, run, ref, rpc, should_interrupt, intr_at, read_pos,
                   pulled, it_done, chunk, queue, emitted, trailer, data_file, mmap,
                   traversed, index_file, outcome, info>>

\* index_file.persist(&index_path) and the WriteOutcome with the three paths
PersistIndex ==
    /\ pc = "persist_index"
    /\ dir' = Replace(dir, File(outcome.data_hash, "idx", index_file))
    /\ tmp' = tmp \ {"index"}
    /\ pc' = "Done"
    /\ result' = Ok(outcome, Path(outcome.data_hash, "pack"),
                    Path(outcome.data_hash, "idx"), Path(outcome.data_hash, "keep"))
    /\ UNCHANGED <<otherVars, cfg, input, run, ref, rpc, should_interrupt, intr_at, read_pos,
                   pulled, it_done, chunk, queue, emitted, trailer, data_file, mmap,
                   traversed, index_file, outcome, info>>

\* The failed rename of the index without the progress message.
PersistIndexFails_Silent ==
    /\ pc = "persist_index"
    /\ Fail("PersistIndex")
    /\ UNCHANGED <<otherVars, cfg, input, run, ref, rpc, should_interrupt, intr_at, read_pos,
                   pulled, it_done, chunk, queue, emitted, trailer, data_file, mmap,
                   traversed, index_file, outcome, dir, info>>

\* The failed rename of the index sends the writer back to encode it again.
PersistIndexFails_EncodesAgain ==
    /\ pc = "persist_index"
    /\ info' = info \cup {Path(outcome.data_hash, "pack")}
    /\ pc' = "encode"
    /\ UNCHANGED <<otherVars, cfg, input, run, ref, rpc, should_interrupt, intr_at, read_pos,
                   pulled, it_done, chunk, queue, emitted, trailer, data_file, mmap,
                   traversed, index_file, outcome, dir, tmp, result>>

\* map_err: progress.info names the retained pack file, the error goes on as it is
PersistIndexFails ==
    /\ pc = "persist_index"
    /\ info' = info \cup {Path(outcome.data_hash, "pack")}
    /\ Fail("PersistIndex")
    /\ UNCHANGED <<otherVars, cfg, input, run, ref, rpc, should_interrupt, intr_at, read_pos,
                   pulled, it_done, chunk, queue, emitted, trailer, data_file, mmap,
                   traversed, index_file, outcome, dir>>

----------------------------------------------------------------------------
(* The reading thread of the eager iterator *)

\* for item in iter { out.push(item) }
ReaderPull ==
    /\ rpc = "reading"
    /\ ~Exhausted
    /\ LET p == Pull
       IN /\ read_pos' = p.pos
          /\ pulled' = p.pulled
          /\ it_done' = p.done
          /\ trailer' = p.trailer
          /\ data_file' = p.data
          /\ chunk' = chunk \o p.items
    /\ UNCHANGED <<otherVars, cfg, input, run, ref, pc, rpc, should_interrupt, intr_at, queue,
                   emitted, mmap, traversed, index_file, outcome, dir, tmp, result,
                   info>>

\* The loop ends and drops the iterator with its clone of the pack temp file,
\* the last chunk is sent and the channel hangs up.
ReaderFinish ==
    /\ rpc = "reading"
    /\ Exhausted
    /\ queue' = chunk
    /\ chunk' = <<>>
    /\ rpc' = "done"
    /\ tmp' = IF Terminal THEN tmp \ {"data"} ELSE tmp
    /\ UNCHANGED <<otherVars, cfg, input, run, ref, pc, should_interrupt, intr_at, read_pos,
                   pulled, it_done, emitted, trailer, data_file, mmap, traversed,
                   index_file, outcome, dir, result, info>>

----------------------------------------------------------------------------
(* The environment *)

\* A poll of the flag lies ahead of the calling thread: the read of the header,
\* or, for a pack with entries, the nodes of the traversal.
PollsAhead ==
    \/ pc \in {"start", "header"}
    \/ /\ Count > 0
       /\ pc \in {"eager_iter", "create_index", "stream", "resolver", "traverse"}

\* Somebody stores true into should_interrupt.
SetInterrupt ==
    /\ ~Terminal
    /\ ~should_interrupt
    /\ should_interrupt' = TRUE
    /\ intr_at' = [pc |-> pc, polls_ahead |-> PollsAhead]
    /\ UNCHANGED <<otherVars, cfg, input, run, ref, pc, rpc, read_pos, pulled, it_done, chunk,
                   queue, emitted, trailer, data_file, mmap, traversed, index_file,
                   outcome, dir, tmp, result, info>>

\* The same call again through write_to_directory_eagerly, on the same input
\* and a fresh directory.
RunAgainEagerly ==
    /\ run = 1
    /\ Terminal
    /\ run' = 2
    /\ ref' = [result |-> result, dir |-> dir]
    /\ cfg' = [cfg EXCEPT !.entry = "write_to_directory_eagerly"]
    /\ pc' = "start"
    /\ rpc' = "off"
    /\ intr_at' = [pc |-> "", polls_ahead |-> FALSE]
    /\ read_pos' = 0
    /\ pulled' = 0
    /\ it_done' = FALSE
    /\ chunk' = <<>>
    /\ queue' = <<>>
    /\ emitted' = <<>>
    /\ trailer' = NoHash
    /\ data_file' = <<>>
    /\ mmap' = <<>>
    /\ traversed' = 0
    /\ index_file' = <<>>
    /\ outcome' = NoOutcome
    /\ dir' = {}
    /\ tmp' = {}
    /\ result' = NoResult
    /\ info' = {}
    /\ UNCHANGED <<otherVars, input, should_interrupt>>

----------------------------------------------------------------------------
(* Specifications *)

Program ==
    \/ CreateDataFile
    \/ NewFromHeader
    \/ EagerIterIf
    \/ CreateIndexFile
    \/ NextEntry
    \/ NextEntryFromThread
    \/ MakeResolver
    \/ TraverseNode
    \/ WriteIndex
    \/ WriteKeep
    \/ PersistPack
    \/ PersistIndex
    \/ ReaderPull
    \/ ReaderFinish

IoFault ==
    \/ CreateDataFileFails
    \/ CreateIndexFileFails
    \/ MakeResolverFails
    \/ WriteIndexFails
    \/ WriteKeepFails
    \/ PersistPackFails
    \/ PersistIndexFails

Next == Program \/ IoFault \/ SetInterrupt

\* Every run, with input/output faults and interruption.
Spec == Init /\ [][Next]_vars

\* The same, with the threads scheduled fairly.
FairSpec == Spec /\ WF_vars(Program)

CleanInit == Init /\ cfg.entry = "write_to_directory"

CleanNext == Program \/ RunAgainEagerly

\* No fault and no interruption: write_to_directory first, then
\* write_to_directory_eagerly on the same input.
CleanSpec == CleanInit /\ [][CleanNext]_vars

----------------------------------------------------------------------------
(* Properties of the bundle writer *)

Has(ext, hash) == \E f \in dir : f.ext = ext /\ f.stem = hash

Stems == {f.stem : f \in dir}

\* C1: in every state of the target directory, pack-<hash>.idx exists only if
\* pack-<hash>.pack exists, and pack-<hash>.pack only if pack-<hash>.keep
\* exists: placement goes .keep, then pack, then index.
C1_KeepThenPackThenIndex ==
    \A h \in Stems :
        /\ Has("idx", h) => Has("pack", h)
        /\ Has("pack", h) => Has("keep", h)

\* The pack is in place under its .keep and the index is not there yet.
C1_Witness ==
    /\ pc = "persist_index"
    /\ Has("keep", outcome.data_hash)
    /\ Has("pack", outcome.data_hash)
    /\ ~Has("idx", outcome.data_hash)

\* C2 as stated: the pack file is at its final name only once the index file
\* is at its final name.
C2_PackOnlyAfterIndex ==
    \A h \in Stems : Has("pack", h) => Has("idx", h)

\* C2 amended: the index file is persisted to its final .idx name only after
\* the pack file has been persisted to pack-<data_hash>.pack: a step that puts
\* an .idx file in place finds the pack of that name already there.
C2_IndexOnlyAfterPack ==
    [][\A f \in dir' \ dir : f.ext = "idx" => Has("pack", f.stem)]_vars

\* Both renames have been done.
C2_Witness ==
    /\ pc = "Done"
    /\ Has("idx", outcome.data_hash)
    /\ Has("pack", outcome.data_hash)

\* C3 as stated: with a directory, a flag set at any point before the pack is
\* renamed leaves none of the three files when the operation has ended.
C3_InterruptBeforeRename ==
    (Terminal /\ cfg.directory /\ intr_at.pc \notin {"", "persist_index"})
        => dir = {}

\* C3 amended: a flag set while a poll still lies ahead (before the header is
\* read or, for a pack with entries, before the traversal has resolved its last
\* node) ends the operation with an error and none of the three files.
C3_InterruptBeforeLastPoll ==
    (Terminal /\ intr_at.polls_ahead) => (pc = "Failed" /\ ~result.ok /\ dir = {})

\* A read or a tree node saw the flag and the run with a directory has ended.
C3_Witness ==
    /\ Terminal
    /\ cfg.directory
    /\ intr_at.polls_ahead
    /\ intr_at.pc = "stream"
    /\ result.err = "Interrupted"

\* C4: when index creation fails, an error is returned, nothing was written or
\* renamed into the directory, and both temp files are gone once their handles
\* are dropped (the pack temp file with the reading thread's clone).
C4_FailedIndexLeavesNothing ==
    (pc = "Failed" /\ outcome = NoOutcome)
        => /\ ~result.ok
           /\ dir = {}
           /\ "index" \notin tmp
           /\ rpc # "reading" => tmp = {}

\* A corrupted trailer was found after both temp files had been created.
C4_Witness ==
    /\ pc = "Failed"
    /\ cfg.directory
    /\ result.err = "ChecksumMismatch"
    /\ outcome = NoOutcome

C6_DryRunLeavesNothing ==
    ~cfg.directory
        => /\ dir = {}
           /\ "index" \notin tmp
           /\ index_file = <<>>
           /\ (Terminal /\ rpc # "reading") => tmp = {}
           /\ pc = "Done" => /\ result.ok
                             /\ result.data_path = <<>>
                             /\ result.index_path = <<>>
                             /\ result.keep_path = <<>>

\* A pack with entries was validated without a directory.
C6_Witness ==
    /\ pc = "Done"
    /\ ~cfg.directory
    /\ emitted # <<>>
    /\ result.index.num_objects = Len(emitted)

\* C7: an Ok result with a directory carries the three paths
\* pack-<data_hash>.{pack,idx,keep} of the hash the index writer reported, the
\* three files exist and no temp file is left.
C7_OutcomePaths ==
    (pc = "Done" /\ cfg.directory)
        => /\ result.ok
           /\ result.index = outcome
           /\ result.data_path = Path(outcome.data_hash, "pack")
           /\ result.index_path = Path(outcome.data_hash, "idx")
           /\ result.keep_path = Path(outcome.data_hash, "keep")
           /\ \A ext \in {"pack", "idx", "keep"} : Has(ext, outcome.data_hash)
           /\ tmp = {}

\* A pack with entries was written into the directory.
C7_Witness ==
    /\ pc = "Done"
    /\ cfg.directory
    /\ result.ok
    /\ outcome.num_objects >= 1

\* The content and the name of the pack without entries, in version 2.
EmptyPackName == PackHash(2, <<>>)

EmptyPack(version) ==
    <<HeaderChunk(version, 0), TrailerChunk(PackHash(version, <<>>))>>

\* C8: a pack with zero objects ends in Done without error, its .keep, .pack
\* and .idx are written, the .pack holding that pack, and its name is the one
\* fixed name of empty packs.
C8_EmptyPackWritten ==
    (Terminal /\ cfg.directory /\ input.header # 0 /\ input.tail = "ok" /\ Count = 0)
        => /\ pc = "Done"
           /\ result.ok
           /\ File(EmptyPackName, "pack", EmptyPack(input.header)) \in dir
           /\ Has("idx", EmptyPackName)
           /\ Has("keep", EmptyPackName)

StateOf(p) ==
    CASE p = "start" -> "Init"
      [] p \in {"header", "eager_iter", "create_index", "stream"} -> "StreamingEntries"
      [] p \in {"resolver", "traverse", "encode"} -> "Indexing"
      [] p \in {"write_keep", "persist_pack", "persist_index"} -> "Persisting"
      [] p = "Done" -> "Done"
      [] p = "Failed" -> "Failed"

Transitions ==
    {<<"Init", "StreamingEntries">>, <<"StreamingEntries", "Indexing">>,
     <<"Indexing", "Persisting">>, <<"Persisting", "Done">>,
     <<"Init", "Failed">>, <<"StreamingEntries", "Failed">>,
     <<"Indexing", "Failed">>, <<"Persisting", "Failed">>}

Forward ==
    \/ StateOf(pc') = StateOf(pc)
    \/ <<StateOf(pc), StateOf(pc')>> \in Transitions
    \/ ~cfg.directory /\ StateOf(pc) = "Indexing" /\ StateOf(pc') = "Done"

\* C9: the writer only moves forward along Init, StreamingEntries, Indexing,
\* Persisting to Done or Failed (without a directory from Indexing to Done),
\* Persisting is entered with data_hash and index_hash at hand, Done and
\* Failed are never left, and every run reaches one of them.
C9_Lifecycle ==
    /\ [][Forward /\ (Terminal => pc' = pc)]_vars
    /\ [](StateOf(pc) = "Persisting"
            => outcome.data_hash # NoHash /\ outcome.index_hash # NoHash)
    /\ <>Terminal

\* A run went through all states to Done.
C9_Witness ==
    /\ StateOf(pc) = "Done"
    /\ cfg.directory
    /\ traversed = Len(emitted)
    /\ traversed >= 1

\* C10: write_to_directory_eagerly ends with the result of write_to_directory
\* and the same final files, for the same input, directory, options and lookup.
C10_EagerlyEquivalent ==
    (run = 2 /\ Terminal) => (result = ref.result /\ dir = ref.dir)

\* The pack the index writer indexes: the input in the branch without a lookup
\* function, the resolved entries with their own header and trailer with one.
IndexedPack ==
    IF cfg.thin
    THEN <<HeaderChunk(input.header, Len(emitted))>>
            \o [i \in 1..Len(emitted) |-> EntryChunk(emitted[i])]
            \o <<TrailerChunk(PackHash(input.header, emitted))>>
    ELSE [i \in 1..Total |-> InputChunk(i)]

\* C11: in every configuration of both entry points, what was read from the
\* input is mirrored to the pack temp file once and in read order, and when
\* indexing starts the pack temp file holds exactly the pack that is indexed.
C11_TempFileHoldsIndexedPack ==
    /\ ~cfg.thin => data_file = [i \in 1..read_pos |-> InputChunk(i)]
    /\ pc = "resolver" => data_file = IndexedPack

\* The chunks the next call of the entry iterator needs in the buffer.
Needed == pulled + 2 + (IF pulled + 1 = Count THEN 1 ELSE 0)

\* The calling thread is about to read from the input.
CallerReads ==
    \/ pc = "header" /\ read_pos < 1
    \/ pc = "stream" /\ rpc = "off" /\ ~Exhausted /\ read_pos < Needed

\* The reading thread is about to read from the input.
ThreadReads == rpc = "reading" /\ ~Exhausted /\ read_pos < Needed

InterruptedItem(items) == \E i \in 1..Len(items) : items[i] = ErrItem("Interrupted")

\* C12: with either entry point and in either branch, a read of the input made
\* while the flag is set reads nothing and fails with Interrupted; the run then
\* never ends in Done, and a run that returned Interrupted has failed and left
\* no pack or index file in the directory.
C12_ReadFailsOnceInterrupted ==
    /\ [][should_interrupt =>
            /\ CallerReads => /\ read_pos' = read_pos
                              /\ pc' = "Failed"
                              /\ result' = Err("Interrupted")
            /\ (ThreadReads /\ chunk' # chunk)
                    => /\ read_pos' = read_pos
                       /\ chunk' = Append(chunk, ErrItem("Interrupted"))]_vars
    /\ []((InterruptedItem(chunk) \/ InterruptedItem(queue)) => pc # "Done")
    /\ [](result.err = "Interrupted"
            => pc = "Failed" /\ ~result.ok /\ ~\E f \in dir : f.ext \in {"pack", "idx"})

\* The reading thread of write_to_directory_eagerly ran into the flag on a
\* read, before any tree node was resolved, and the call returned the error.
C12_Witness ==
    /\ pc = "Failed"
    /\ result.err = "Interrupted"
    /\ Eager
    /\ rpc = "done"
    /\ mmap = <<>>
    /\ traversed = 0

\* C13: the map of the pack temp file is opened after the flush, nothing is
\* written to the file from then on, and the lookups of the traversal go
\* through a map that holds the complete pack.
C13_MapHoldsCompletePack ==
    pc = "traverse" => (mmap = data_file /\ mmap = IndexedPack)

----------------------------------------------------------------------------
(* index::File::traverse_with_index: the verification task and the         *)
(* traversal task under parallel::join.  The tree nodes of the pack are    *)
(* taken in the order in which the traversal reaches them; each carries    *)
(* what process_entry returns for it.                                      *)

\* Largest number of tree nodes of a traversed pack.
MaxNodes == 2

SafetyChecks ==
    {"All", "SkipFileChecksumVerification", "SkipFileAndObjectChecksumVerification",
     "SkipFileAndObjectChecksumVerificationAndNoAbortOnDecodeError"}

MostPermissive == "SkipFileAndObjectChecksumVerificationAndNoAbortOnDecodeError"

\* SafetyCheck::file_checksum(): the checksums of pack and index are verified.
FileChecksum(c) == c = "All"

\* SafetyCheck::fatal_decode_error()
FatalDecodeError(c) == c # MostPermissive

\* What process_entry returns for a node: "" for Ok(()), or the error.
ProcessResults == {"", "PackDecode", "Processor"}

\* verify: "" when the trailing checksums match, else the error of the mismatch.
Packs ==
    [verify : {"", "PackChecksumMismatch"},
     nodes : SeqsUpTo(ProcessResults, MaxNodes)]

\* A value of the two results is a returned error.
IsErr(r) == r \notin {"", "Ok", "Panic"}

\* The bundle writer has not been called.
BundleIdle ==
    /\ cfg = [entry |-> "write_to_directory", directory |-> FALSE, thin |-> FALSE,
              odb |-> FALSE, reads |-> "full"]
    /\ input = [header |-> 2, entries |-> <<>>, tail |-> "ok"]
    /\ run = 1
    /\ ref = [result |-> NoResult, dir |-> {}]
    /\ RunInit

\* parallel::join has started both closures.
TraverseInit ==
    /\ MoreIdle
    /\ BundleIdle
    /\ EncodeIdle
    /\ check \in SafetyChecks
    /\ pack \in Packs
    /\ vpc = "possibly_verify"
    /\ tpc = "from_offsets_in_pack"
    /\ res = ""
    /\ verify_result = ""
    /\ traversal_result = ""
    /\ node = 0
    /\ ignored = {}
    /\ first_error = ""
    /\ ret = ""

\* let res = self.possibly_verify(pack, check, .., should_interrupt): nothing is
\* hashed unless the level asks for file checksums; the hashing polls the flag.
PossiblyVerify ==
    /\ vpc = "possibly_verify"
    /\ LET r == IF ~FileChecksum(check) THEN "Ok"
                ELSE IF should_interrupt THEN "Interrupted"
                ELSE IF pack.verify # "" THEN pack.verify
                ELSE "Ok"
       IN /\ res' = r
          /\ first_error' = IF first_error = "" /\ IsErr(r) THEN "verify" ELSE first_error
    /\ vpc' = "is_err"
    /\ UNCHANGED <<moreVars, bundleVars, encodeVars, should_interrupt, check, pack, tpc,
                   verify_result, traversal_result, node, ignored, ret>>

\* if res.is_err() { should_interrupt.store(true, Ordering::SeqCst); } res
StoreInterrupt ==
    /\ vpc = "is_err"
    /\ should_interrupt' = (should_interrupt \/ IsErr(res))
    /\ verify_result' = res
    /\ vpc' = "done"
    /\ UNCHANGED <<moreVars, bundleVars, encodeVars, check, pack, tpc, res, traversal_result,
                   node, ignored, first_error, ret>>

\* The traversal task ends with an error.
TraversalFails(kind) ==
    /\ traversal_result' = kind
    /\ tpc' = "done"
    /\ first_error' = IF first_error = "" THEN "traversal" ELSE first_error

\* index_entries_sorted_by_offset_ascending and Tree::from_offsets_in_pack(..,
\* should_interrupt, ..)?
FromOffsetsInPack ==
    /\ tpc = "from_offsets_in_pack"
    /\ IF should_interrupt
       THEN TraversalFails("Interrupted")
       ELSE /\ tpc' = "traverse"
            /\ UNCHANGED <<traversal_result, first_error>>
    /\ UNCHANGED <<moreVars, bundleVars, encodeVars, should_interrupt, check, pack, vpc, res,
                   verify_result, node, ignored, ret>>

\* Every error of process_entry is logged and turned into Ok below the
\* strictest handling of decode errors.
Callback_IgnoresEveryError(i) ==
    LET r == pack.nodes[i]
    IN IF r # "" /\ ~FatalDecodeError(check)
       THEN [ret |-> "", info |-> TRUE]
       ELSE [ret |-> r, info |-> FALSE]

\* The closure handed to tree.traverse: process_entry, then
\* Err(err @ Error::PackDecode { .. }) if !check.fatal_decode_error() => Ok(())
\* after progress.info("Ignoring decode error: ..") and `res => res`.
Callback(i) ==
    LET r == pack.nodes[i]
    IN IF r = "PackDecode" /\ ~FatalDecodeError(check)
       THEN [ret |-> "", info |-> TRUE]
       ELSE [ret |-> r, info |-> FALSE]

\* tree.traverse handles its next node: it polls the flag and calls the closure.
ProcessNode ==
    /\ tpc = "traverse"
    /\ node < Len(pack.nodes)
    /\ IF should_interrupt
       THEN TraversalFails("Interrupted") /\ UNCHANGED <<node, ignored>>
       ELSE LET c == Callback(node + 1)
            IN IF c.ret # ""
               THEN TraversalFails(c.ret) /\ UNCHANGED <<node, ignored>>
               ELSE /\ node' = node + 1
                    /\ ignored' = IF c.info THEN ignored \cup {node + 1} ELSE ignored
                    /\ UNCHANGED <<tpc, traversal_result, first_error>>
    /\ UNCHANGED <<moreVars, bundleVars, encodeVars, should_interrupt, check, pack, vpc, res,
                   verify_result, ret>>

\* digest_statistics(tree.traverse(..)?) and Ok(outcome): the averages are
\* divided by num_nodes = roots.len() + children.len(), which panics for zero.
DigestStatistics ==
    /\ tpc = "traverse"
    /\ node = Len(pack.nodes)
    /\ traversal_result' = IF Len(pack.nodes) = 0 THEN "Panic" ELSE "Ok"
    /\ tpc' = "done"
    /\ UNCHANGED <<moreVars, bundleVars, encodeVars, should_interrupt, check, pack, vpc, res,
                   verify_result, node, ignored, first_error, ret>>

\* The result of the traversal is looked at first.
Join_TraversalFirst ==
    /\ vpc = "done"
    /\ tpc = "done"
    /\ ret = ""
    /\ ret' = IF traversal_result # "Ok" THEN traversal_result ELSE verify_result
    /\ UNCHANGED <<moreVars, bundleVars, encodeVars, should_interrupt, check, pack, vpc, tpc, res,
                   verify_result, traversal_result, node, ignored, first_error>>

\* parallel::join hands back both results (a panic of a closure goes on to the
\* caller); Ok(Outcome { actual_index_checksum: verify_result?, statistics:
\* traversal_result?, progress })
Join ==
    /\ vpc = "done"
    /\ tpc = "done"
    /\ ret = ""
    /\ ret' = IF traversal_result = "Panic" THEN "Panic"
              ELSE IF verify_result # "Ok" THEN verify_result
              ELSE traversal_result
    /\ UNCHANGED <<moreVars, bundleVars, encodeVars, should_interrupt, check, pack, vpc, tpc, res,
                   verify_result, traversal_result, node, ignored, first_error>>

\* The caller of traverse_with_index stores true into the flag it handed in.
CallerInterrupts ==
    /\ ret = ""
    /\ ~should_interrupt
    /\ should_interrupt' = TRUE
    /\ UNCHANGED <<moreVars, bundleVars, encodeVars, traverseVars>>

TraverseNext ==
    \/ PossiblyVerify
    \/ StoreInterrupt
    \/ FromOffsetsInPack
    \/ ProcessNode
    \/ DigestStatistics
    \/ Join
    \/ CallerInterrupts

\* Every call of traverse_with_index, under every interleaving of its tasks.
TraverseSpec == TraverseInit /\ [][TraverseNext]_vars

\* The next step of the traversal task polls the flag.
TraversalPolls ==
    \/ tpc = "from_offsets_in_pack"
    \/ tpc = "traverse" /\ node < Len(pack.nodes)

\* C14: a failed verification has set the flag by the time its error is
\* returned; a verification that succeeded leaves the flag as it is; with the
\* flag set the traversal ends at its next poll without handling another node;
\* and traverse_with_index returns the error of a failed verification.
C14_FailedVerificationStopsTraversal ==
    /\ [](IsErr(verify_result) => should_interrupt)
    /\ [][(vpc = "is_err" /\ vpc' = "done" /\ ~IsErr(res))
            => should_interrupt' = should_interrupt]_vars
    /\ [][(should_interrupt /\ TraversalPolls /\ (tpc' # tpc \/ node' # node))
            => (tpc' = "done" /\ traversal_result' = "Interrupted" /\ node' = node)]_vars
    /\ []((ret # "" /\ IsErr(verify_result)) => ret = verify_result)

\* C15 as stated: when both tasks ended with an error, the caller gets the one
\* that came first in time.
C15_FirstErrorInTimeWins ==
    (ret # "" /\ IsErr(verify_result) /\ IsErr(traversal_result))
        => ret = (IF first_error = "verify" THEN verify_result ELSE traversal_result)

\* C15 amended: when both tasks ended with an error, the caller gets the error
\* of the verification task, whichever of the two came first in time.
C15_VerificationErrorWins ==
    (ret # "" /\ IsErr(verify_result) /\ IsErr(traversal_result))
        => ret = verify_result

\* The traversal failed first, the verification failed after it, and the call
\* has returned.
C15_Witness ==
    /\ ret # ""
    /\ first_error = "traversal"
    /\ traversal_result = "Processor"
    /\ verify_result = "PackChecksumMismatch"

\* C16: below the most permissive level, and for every error that is not
\* PackDecode, the error of process_entry ends the traversal with that error;
\* at the most permissive level a PackDecode error is logged and the traversal
\* goes on with the next node; fatal_decode_error() is false for that level only.
C16_DecodeErrorPolicy ==
    /\ [][(tpc = "traverse" /\ node < Len(pack.nodes) /\ ~should_interrupt
              /\ (tpc' # tpc \/ node' # node))
            => LET r == pack.nodes[node + 1]
               IN IF r = "PackDecode" /\ check = MostPermissive
                  THEN /\ node' = node + 1
                       /\ ignored' = ignored \cup {node + 1}
                       /\ tpc' = "traverse"
                       /\ traversal_result' = ""
                  ELSE IF r # ""
                  THEN /\ traversal_result' = r
                       /\ tpc' = "done"
                       /\ node' = node
                       /\ ignored' = ignored
                  ELSE /\ node' = node + 1
                       /\ ignored' = ignored
                       /\ traversal_result' = ""]_vars
    /\ [](\A c \in SafetyChecks : ~FatalDecodeError(c) <=> c = MostPermissive)
    /\ [](traversal_result = "PackDecode" => FatalDecodeError(check))

\* A decode error of the first node was ignored and the traversal went on to
\* the end.
C16_Witness ==
    /\ traversal_result = "Ok"
    /\ 1 \in ignored
    /\ node = 2
    /\ pack.nodes[1] = "PackDecode"

----------------------------------------------------------------------------
(* index::write::encode: write_to and fanout.  A u64 pack offset is the    *)
(* pair [hi, lo] of its bits above and below bit 31, its value being       *)
(* hi * 2^31 + lo; a u32 of the offset table is the pair [high_bit, low]   *)
(* of its bit 31 and its lower 31 bits.                                    *)

\* Largest number of entries handed to write_to.
MaxEntries == 2

\* const LARGE_OFFSET_THRESHOLD: u64 = 0x7fff_ffff
LARGE_OFFSET_THRESHOLD == 2147483647

\* First bytes of the object ids, the rest of an id, and pack offsets.
FirstBytes == {0, 1, 254, 255}

Ids == [first_byte : FirstBytes, rest : {0, 1}]

Offsets ==
    {[hi |-> 0, lo |-> 12], [hi |-> 0, lo |-> LARGE_OFFSET_THRESHOLD],
     [hi |-> 1, lo |-> 0], [hi |-> 3, lo |-> 12]}

\* cache::delta::Item<index::write::TreeEntry>: data.id, data.crc32, offset
IndexEntries == [id : Ids, crc32 : {0}, offset : Offsets]

\* Ord of git_hash::ObjectId: bytewise
IdLess(a, b) ==
    \/ a.first_byte < b.first_byte
    \/ a.first_byte = b.first_byte /\ a.rest < b.rest

\* What write_data_iter_to_stream hands over: one entry per pack entry, each at
\* its own pack offset, sorted by id.
SortedEntryLists ==
    {es \in SeqsUpTo(IndexEntries, MaxEntries) :
        \A i, j \in 1..Len(es) :
            i < j => ~IdLess(es[j].id, es[i].id) /\ es[i].offset # es[j].offset}

\* The pack hashes handed to write_to.
PackHashes == {PackHash(2, <<>>), PackHash(2, <<"blob">>)}

\* write_to has been called.
EncodeInit ==
    /\ MoreIdle
    /\ BundleIdle
    /\ TraverseIdle
    /\ entries_sorted_by_oid \in SortedEntryLists
    /\ pack_hash \in PackHashes
    /\ wpc = "header"
    /\ out = <<>>
    /\ index_hash = NoHash

\* n table entries of the same value
Repeat(value, n) == [k \in 1..n |-> value]

\* The table entry of the last byte is the stale upper bound.
RECURSIVE FanoutLoop_StaleAtLastByte(_, _, _, _)
FanoutLoop_StaleAtLastByte(bytes, byte, pos, upper_bound) ==
    IF byte > 255 THEN <<>>
    ELSE IF pos > Len(bytes) THEN Repeat(Len(bytes), 256 - byte)
    ELSE IF bytes[pos] < byte THEN <<-1>>
    ELSE IF bytes[pos] > byte
    THEN Repeat(upper_bound, bytes[pos] - byte)
            \o FanoutLoop_StaleAtLastByte(bytes, bytes[pos], pos, upper_bound)
    ELSE IF byte = 255 THEN <<upper_bound>>
    ELSE LET later == {j \in (pos + 1)..Len(bytes) : bytes[j] # byte}
             found == IF later = {} THEN Len(bytes) + 1
                      ELSE CHOOSE j \in later : \A k \in later : j <= k
             bound == IF later = {} THEN Len(bytes) ELSE found - 1
         IN <<bound>> \o FanoutLoop_StaleAtLastByte(bytes, byte + 1, found, bound)

\* The table entry of a byte counts the entries below it only.
RECURSIVE FanoutLoop_ExclusiveBound(_, _, _, _)
FanoutLoop_ExclusiveBound(bytes, byte, pos, upper_bound) ==
    IF byte > 255 THEN <<>>
    ELSE IF pos > Len(bytes) THEN Repeat(Len(bytes), 256 - byte)
    ELSE IF bytes[pos] < byte THEN <<-1>>
    ELSE IF bytes[pos] > byte
    THEN Repeat(upper_bound, bytes[pos] - byte)
            \o FanoutLoop_ExclusiveBound(bytes, bytes[pos], pos, upper_bound)
    ELSE IF byte = 255 THEN <<Len(bytes)>>
    ELSE LET later == {j \in (pos + 1)..Len(bytes) : bytes[j] # byte}
             found == IF later = {} THEN Len(bytes) + 1
                      ELSE CHOOSE j \in later : \A k \in later : j <= k
             bound == IF later = {} THEN Len(bytes) ELSE found - 1
         IN <<upper_bound>> \o FanoutLoop_ExclusiveBound(bytes, byte + 1, found, bound)

\* The loop of fanout from `byte` on: `pos` is the entry held by idx_and_entry
\* (beyond the end for None), the table entries come out in order.  The None
\* arm and the Greater arm leave the loop's state alone, so their rounds up to
\* the next byte that has an entry are taken at once.  A first byte below
\* `byte` is the unreachable!() arm: the loop ends there with -1.
\* iter.find(|(_, first_byte)| *first_byte != byte) takes the first later entry
\* with another first byte, whose index is the new upper_bound.
RECURSIVE FanoutLoop(_, _, _, _)
FanoutLoop(bytes, byte, pos, upper_bound) ==
    IF byte > 255 THEN <<>>
    ELSE IF pos > Len(bytes) THEN Repeat(Len(bytes), 256 - byte)
    ELSE IF bytes[pos] < byte THEN <<-1>>
    ELSE IF bytes[pos] > byte
    THEN Repeat(upper_bound, bytes[pos] - byte)
            \o FanoutLoop(bytes, bytes[pos], pos, upper_bound)
    ELSE IF byte = 255 THEN <<Len(bytes)>>
    ELSE LET later == {j \in (pos + 1)..Len(bytes) : bytes[j] # byte}
             found == IF later = {} THEN Len(bytes) + 1
                      ELSE CHOOSE j \in later : \A k \in later : j <= k
             bound == IF later = {} THEN Len(bytes) ELSE found - 1
         IN <<bound>> \o FanoutLoop(bytes, byte + 1, found, bound)

\* fanout(iter): entry b + 1 of the result is fan_out[b].
fanout(bytes) == FanoutLoop(bytes, 0, 1, 0)

\* entry.offset > LARGE_OFFSET_THRESHOLD
IsLargeOffset(offset) == offset.hi > 0 \/ offset.lo > LARGE_OFFSET_THRESHOLD

\* `entry.offset as u32`: the lower 32 bits
AsU32(offset) == [high_bit |-> offset.hi % 2, low |-> offset.lo]

\* `((offsets64.len() - 1) as u32) | HIGH_BIT`
IndexWithHighBit(len) == [high_bit |-> 1, low |-> len - 1]

\* The large-offset index is taken after the push without the `- 1`.
RECURSIVE OffsetsLoop_IndexAfterPush(_, _, _, _)
OffsetsLoop_IndexAfterPush(entries, i, offsets32, offsets64) ==
    IF i > Len(entries) THEN [offsets32 |-> offsets32, offsets64 |-> offsets64]
    ELSE IF IsLargeOffset(entries[i].offset)
    THEN LET pushed == Append(offsets64, entries[i].offset)
         IN OffsetsLoop_IndexAfterPush(entries, i + 1,
                Append(offsets32, IndexWithHighBit(Len(pushed) + 1)), pushed)
    ELSE OffsetsLoop_IndexAfterPush(entries, i + 1,
                Append(offsets32, AsU32(entries[i].offset)), offsets64)

\* for entry in &entries_sorted_by_oid { .. }: a large offset is pushed to
\* offsets64 and its index goes out with the high bit, a small one goes out
\* as it is.
RECURSIVE OffsetsLoop(_, _, _, _)
OffsetsLoop(entries, i, offsets32, offsets64) ==
    IF i > Len(entries) THEN [offsets32 |-> offsets32, offsets64 |-> offsets64]
    ELSE IF IsLargeOffset(entries[i].offset)
    THEN LET pushed == Append(offsets64, entries[i].offset)
         IN OffsetsLoop(entries, i + 1,
                Append(offsets32, IndexWithHighBit(Len(pushed))), pushed)
    ELSE OffsetsLoop(entries, i + 1,
                Append(offsets32, AsU32(entries[i].offset)), offsets64)

Section(name, values) == [section |-> name, values |-> values]

Written(name) == \E i \in 1..Len(out) : out[i].section = name

ValuesOf(name) == out[CHOOSE i \in 1..Len(out) : out[i].section = name].values

\* out.write_all(V2_SIGNATURE)?; out.write_all(&(kind as u32).to_be_bytes())?
WriteHeader ==
    /\ wpc = "header"
    /\ out' = <<Section("signature", <<>>), Section("version", <<2>>)>>
    /\ wpc' = "fan_out"
    /\ UNCHANGED <<moreVars, bundleVars, should_interrupt, traverseVars, entries_sorted_by_oid, pack_hash,
                   index_hash>>

\* let fan_out = fanout(entries_sorted_by_oid.iter().map(|e| e.data.id.first_byte()))
\* and the loop that writes its values
WriteFanout ==
    /\ wpc = "fan_out"
    /\ out' = Append(out, Section("fan_out",
                fanout([i \in 1..Len(entries_sorted_by_oid)
                            |-> entries_sorted_by_oid[i].id.first_byte])))
    /\ wpc' = "ids"
    /\ UNCHANGED <<moreVars, bundleVars, should_interrupt, traverseVars, entries_sorted_by_oid, pack_hash,
                   index_hash>>

\* The ids go out last entry first.
WriteIds_Reversed ==
    /\ wpc = "ids"
    /\ out' = Append(out, Section("ids",
                [i \in 1..Len(entries_sorted_by_oid)
                    |-> entries_sorted_by_oid[Len(entries_sorted_by_oid) + 1 - i].id]))
    /\ wpc' = "crc32"
    /\ UNCHANGED <<moreVars, bundleVars, should_interrupt, traverseVars, entries_sorted_by_oid, pack_hash,
                   index_hash>>

\* for entry in &entries_sorted_by_oid { out.write_all(entry.data.id.as_slice())?; }
WriteIds ==
    /\ wpc = "ids"
    /\ out' = Append(out, Section("ids",
                [i \in 1..Len(entries_sorted_by_oid) |-> entries_sorted_by_oid[i].id]))
    /\ wpc' = "crc32"
    /\ UNCHANGED <<moreVars, bundleVars, should_interrupt, traverseVars, entries_sorted_by_oid, pack_hash,
                   index_hash>>

\* for entry in &entries_sorted_by_oid { out.write_all(&entry.data.crc32.to_be_bytes())?; }
WriteCrc32 ==
    /\ wpc = "crc32"
    /\ out' = Append(out, Section("crc32",
                [i \in 1..Len(entries_sorted_by_oid) |-> entries_sorted_by_oid[i].crc32]))
    /\ wpc' = "offsets"
    /\ UNCHANGED <<moreVars, bundleVars, should_interrupt, traverseVars, entries_sorted_by_oid, pack_hash,
                   index_hash>>

\* The block that writes the 32 bit offsets and then the values of offsets64.
WriteOffsets ==
    /\ wpc = "offsets"
    /\ LET tables == OffsetsLoop(entries_sorted_by_oid, 1, <<>>, <<>>)
       IN out' = out \o <<Section("offsets", tables.offsets32),
                          Section("offsets64", tables.offsets64)>>
    /\ wpc' = "trailer"
    /\ UNCHANGED <<moreVars, bundleVars, should_interrupt, traverseVars, entries_sorted_by_oid, pack_hash,
                   index_hash>>

\* hash::Write: the digest of the sections that went through the hasher
Digest(sections) == [v |-> 1, es |-> sections]

\* The digest is taken before the pack hash is written.
WriteTrailer_DigestBeforePackHash ==
    /\ wpc = "trailer"
    /\ index_hash' = Digest(out)
    /\ out' = out \o <<Section("pack_hash", <<pack_hash>>),
                        Section("index_hash", <<Digest(out)>>)>>
    /\ wpc' = "done"
    /\ UNCHANGED <<moreVars, bundleVars, should_interrupt, traverseVars, entries_sorted_by_oid, pack_hash>>

\* out.write_all(pack_hash.as_slice())? goes through the hasher as every write
\* before it; out.inner.into_inner()? takes the buffer away, out.hash.digest()
\* is the digest of what the hasher saw, out.inner.write_all(index_hash) writes
\* it past the hasher, and Ok(index_hash) returns it.
WriteTrailer ==
    /\ wpc = "trailer"
    /\ LET hashed == Append(out, Section("pack_hash", <<pack_hash>>))
       IN /\ index_hash' = Digest(hashed)
          /\ out' = Append(hashed, Section("index_hash", <<Digest(hashed)>>))
    /\ wpc' = "done"
    /\ UNCHANGED <<moreVars, bundleVars, should_interrupt, traverseVars, entries_sorted_by_oid, pack_hash>>

\* A write fails and `?` returns the io::Error.
WriteFails ==
    /\ wpc \in {"header", "fan_out", "ids", "crc32", "offsets", "trailer"}
    /\ wpc' = "failed"
    /\ UNCHANGED <<moreVars, bundleVars, should_interrupt, traverseVars, entries_sorted_by_oid, pack_hash,
                   out, index_hash>>

EncodeNext ==
    \/ WriteHeader
    \/ WriteFanout
    \/ WriteIds
    \/ WriteCrc32
    \/ WriteOffsets
    \/ WriteTrailer
    \/ WriteFails

\* Every call of write_to on a list of entries sorted by id.
EncodeSpec == EncodeInit /\ [][EncodeNext]_vars

FirstBytesOf(entries) == [i \in 1..Len(entries) |-> entries[i].id.first_byte]

\* C17: for a sequence of first bytes sorted ascending, the empty one and
\* those with byte 255 included, fanout returns 256 entries, and the entry of
\* byte b is the number of first bytes that are at most b.
C17_FanoutCountsUpToByte ==
    Written("fan_out")
        => LET bytes == FirstBytesOf(entries_sorted_by_oid)
               table == ValuesOf("fan_out")
           IN /\ Len(table) = 256
              /\ \A b \in 0..255 :
                    table[b + 1] = Cardinality({i \in 1..Len(bytes) : bytes[i] <= b})

\* The table of two entries, the second of which starts with byte 255.
C17_Witness ==
    /\ Written("fan_out")
    /\ FirstBytesOf(entries_sorted_by_oid) = <<254, 255>>

\* C18: in an index written by write_to the fan-out table never decreases from
\* one byte to the next and its last entry is the number of ids written.
C18_FanoutMonotoneUpToCount ==
    Written("ids")
        => LET table == ValuesOf("fan_out")
           IN /\ \A b \in 1..255 : table[b] <= table[b + 1]
              /\ table[256] = Len(ValuesOf("ids"))

\* A complete index of two entries starting with byte 255.
C18_Witness ==
    /\ wpc = "done"
    /\ FirstBytesOf(entries_sorted_by_oid) = <<255, 255>>

\* C19 as stated: the ids of a written index are in strict ascending order.
C19_IdsStrictlyAscending ==
    Written("ids")
        => LET ids == ValuesOf("ids")
           IN \A i, j \in 1..Len(ids) : i < j => IdLess(ids[i], ids[j])

\* C19 amended: the ids of a written index are the ids of the entries, one per
\* entry, in ascending order; an id is there as often as the pack holds its
\* object, and the order is strict when no object is in the pack twice.
C19_IdsAscendingOnePerEntry ==
    Written("ids")
        => LET ids == ValuesOf("ids")
               es == entries_sorted_by_oid
           IN /\ Len(ids) = Len(es)
              /\ \A i \in 1..Len(ids) : ids[i] = es[i].id
              /\ \A i, j \in 1..Len(ids) : i < j => ~IdLess(ids[j], ids[i])
              /\ (\A i, j \in 1..Len(es) : i # j => es[i].id # es[j].id)
                    => \A i, j \in 1..Len(ids) : i < j => IdLess(ids[i], ids[j])

\* An index of two entries that carry the same id at two pack offsets.
C19_Witness ==
    /\ Written("ids")
    /\ Len(entries_sorted_by_oid) = 2
    /\ entries_sorted_by_oid[1].id = entries_sorted_by_oid[2].id

\* Reading an entry of the small-offset table: without the high bit it is the
\* offset, with it the lower bits select an entry of the large-offset table.
DecodeOffset(value, offsets64) ==
    IF value.high_bit = 0 THEN [hi |-> 0, lo |-> value.low]
    ELSE offsets64[value.low + 1]

\* C20: decoding the small-offset table against the large-offset table gives
\* back every entry's offset; offsets up to 0x7FFFFFFF are stored inline, the
\* larger ones get the indices 0, 1, 2, .. in the order of the entries, and
\* the large-offset table holds exactly their values in that order.
C20_OffsetsRoundTrip ==
    Written("offsets64")
        => LET es == entries_sorted_by_oid
               small == ValuesOf("offsets")
               large == ValuesOf("offsets64")
               LargeBefore(i) == Cardinality({j \in 1..(i - 1) : IsLargeOffset(es[j].offset)})
           IN /\ Len(small) = Len(es)
              /\ Len(large) = LargeBefore(Len(es) + 1)
              /\ \A i \in 1..Len(es) :
                    IF IsLargeOffset(es[i].offset)
                    THEN /\ small[i] = [high_bit |-> 1, low |-> LargeBefore(i)]
                         /\ large[LargeBefore(i) + 1] = es[i].offset
                    ELSE small[i] = [high_bit |-> 0, low |-> es[i].offset.lo]
              /\ \A i \in 1..Len(es) : DecodeOffset(small[i], large) = es[i].offset

\* Both entries of the index have offsets beyond 0x7FFFFFFF.
C20_Witness ==
    /\ Written("offsets64")
    /\ Len(ValuesOf("offsets64")) = 2

\* The sections of a v2 index in the order write_to writes them.
SectionOrder ==
    <<"signature", "version", "fan_out", "ids", "crc32", "offsets", "offsets64",
      "pack_hash", "index_hash">>

SectionNames == [i \in 1..Len(out) |-> out[i].section]

\* C21: what write_to has written is at every moment a prefix of signature,
\* version, fan-out, ids, CRC32s, small offsets, large offsets, pack hash,
\* index hash; once it has returned Ok all nine sections are there, the pack
\* hash section is the pack hash it was given, the index hash written last is
\* the digest of exactly the eight sections before it, and the value
\* returned is that written trailer.
C21_TrailerIsDigestOfAllBefore ==
    /\ SectionNames = SubSeq(SectionOrder, 1, Len(out))
    /\ wpc = "done" =>
        /\ SectionNames = SectionOrder
        /\ ValuesOf("pack_hash") = <<pack_hash>>
        /\ out[Len(out)].values = <<Digest(SubSeq(out, 1, Len(out) - 1))>>
        /\ index_hash = out[Len(out)].values[1]

\* write_to returned Ok for two entries, one of them with a large offset.
C21_Witness ==
    /\ wpc = "done"
    /\ Len(entries_sorted_by_oid) = 2
    /\ ValuesOf("offsets64") # <<>>
    /\ index_hash # NoHash

-----------------------------------------------------------------------------
(* write_to on lists near its limits.  A list of 2^31 or 2^32 entries is   *)
(* kept as runs: [large, n] stands for n consecutive entries whose offsets *)
(* all are above LARGE_OFFSET_THRESHOLD, or all are not.  A length is the  *)
(* pair [hi, lo] of value hi * 2^31 + lo, as a pack offset is.             *)

\* Largest number of runs of a list.
MaxRuns == 2

Big(hi, lo) == [hi |-> hi, lo |-> lo]

\* u32::MAX as usize
U32_MAX == Big(1, LARGE_OFFSET_THRESHOLD)

\* LARGE_OFFSET_THRESHOLD as usize
Threshold == Big(0, LARGE_OFFSET_THRESHOLD)

BigLeq(a, b) == a.hi < b.hi \/ (a.hi = b.hi /\ a.lo <= b.lo)

BigAdd(a, b) ==
    IF a.lo <= LARGE_OFFSET_THRESHOLD - b.lo
    THEN Big(a.hi + b.hi, a.lo + b.lo)
    ELSE Big(a.hi + b.hi + 1, a.lo - (LARGE_OFFSET_THRESHOLD - b.lo) - 1)

\* a - 1 for a > 0
BigPred(a) == IF a.lo > 0 THEN Big(a.hi, a.lo - 1) ELSE Big(a.hi - 1, LARGE_OFFSET_THRESHOLD)

\* 1, 2^31 - 2, 2^31 - 1, 2^31, 2^32 - 1 and 2^32 entries
RunLengths ==
    {Big(0, 1), Big(0, LARGE_OFFSET_THRESHOLD - 1), Big(0, LARGE_OFFSET_THRESHOLD),
     Big(1, 0), Big(1, LARGE_OFFSET_THRESHOLD), Big(2, 0)}

RunLists == SeqsUpTo([large : BOOLEAN, n : RunLengths], MaxRuns)

\* entries_sorted_by_oid.len()
RECURSIVE EntriesLen(_)
EntriesLen(rs) ==
    IF rs = <<>> THEN Big(0, 0) ELSE BigAdd(Head(rs).n, EntriesLen(Tail(rs)))

\* How many entries have entry.offset > LARGE_OFFSET_THRESHOLD.
RECURSIVE LargeLen(_)
LargeLen(rs) ==
    IF rs = <<>> THEN Big(0, 0)
    ELSE IF Head(rs).large THEN BigAdd(Head(rs).n, LargeLen(Tail(rs)))
    ELSE LargeLen(Tail(rs))

\* write_to has been called on a long list.
CapacityInit ==
    /\ BundleIdle
    /\ TraverseIdle
    /\ EncodeIdle
    /\ TreeIdle
    /\ LateIdle
    /\ runs \in RunLists
    /\ cpc = "assert"
    /\ written = <<>>
    /\ offsets64_len = Big(0, 0)
    /\ stored = <<>>

capacityOthers == <<bundleVars, should_interrupt, traverseVars, encodeVars, treeVars, lateVars>>

\* The loop pushes every large offset, however many there are.
RECURSIVE OffsetsLoopRuns_NoAssert(_, _, _, _)
OffsetsLoopRuns_NoAssert(rs, i, len, largest) ==
    IF i > Len(rs) THEN [panicked |-> FALSE, len |-> len, stored |-> largest]
    ELSE IF rs[i].large
    THEN LET pushed == BigAdd(len, rs[i].n)
         IN OffsetsLoopRuns_NoAssert(rs, i + 1, pushed, <<BigPred(pushed)>>)
    ELSE OffsetsLoopRuns_NoAssert(rs, i + 1, len, largest)

\* for entry in &entries_sorted_by_oid { .. }, a run at a time: every entry of
\* a run of large offsets asserts offsets64.len() < LARGE_OFFSET_THRESHOLD,
\* pushes, and writes offsets64.len() - 1 with the high bit, so the run gets
\* through when the length after it is at most the threshold, and otherwise
\* the assertion fails at the entry that finds the length at the threshold.
RECURSIVE OffsetsLoopRuns(_, _, _, _)
OffsetsLoopRuns(rs, i, len, largest) ==
    IF i > Len(rs) THEN [panicked |-> FALSE, len |-> len, stored |-> largest]
    ELSE IF rs[i].large
    THEN LET pushed == BigAdd(len, rs[i].n)
         IN IF BigLeq(pushed, Threshold)
            THEN OffsetsLoopRuns(rs, i + 1, pushed, <<BigPred(pushed)>>)
            ELSE [panicked |-> TRUE, len |-> Threshold, stored |-> <<BigPred(Threshold)>>]
    ELSE OffsetsLoopRuns(rs, i + 1, len, largest)

\* assert!(entries_sorted_by_oid.len() <= u32::MAX as usize, ..)
AssertLen ==
    /\ cpc = "assert"
    /\ cpc' = IF BigLeq(EntriesLen(runs), U32_MAX) THEN "sections" ELSE "panicked"
    /\ UNCHANGED <<capacityOthers, runs, written, offsets64_len, stored>>

\* signature, version, fan-out table, ids and crc32s
WriteUpToCrc32 ==
    /\ cpc = "sections"
    /\ written' = SubSeq(SectionOrder, 1, 5)
    /\ cpc' = "offsets"
    /\ UNCHANGED <<capacityOthers, runs, offsets64_len, stored>>

\* The block that writes the 32 bit offsets and then the values of offsets64;
\* a failed assertion leaves the table of 32 bit offsets unfinished.
WriteOffsetsRuns ==
    /\ cpc = "offsets"
    /\ LET loop == OffsetsLoopRuns(runs, 1, offsets64_len, stored)
       IN /\ offsets64_len' = loop.len
          /\ stored' = loop.stored
          /\ written' = IF loop.panicked THEN written ELSE SubSeq(SectionOrder, 1, 7)
          /\ cpc' = IF loop.panicked THEN "panicked" ELSE "trailer"
    /\ UNCHANGED <<capacityOthers, runs>>

\* pack hash and index hash
WriteHashes ==
    /\ cpc = "trailer"
    /\ written' = SectionOrder
    /\ cpc' = "done"
    /\ UNCHANGED <<capacityOthers, runs, offsets64_len, stored>>

\* A write fails and `?` returns the io::Error.
WriteOfLongListFails ==
    /\ cpc \in {"sections", "offsets", "trailer"}
    /\ cpc' = "failed"
    /\ UNCHANGED <<capacityOthers, runs, written, offsets64_len, stored>>

CapacityNext ==
    \/ AssertLen
    \/ WriteUpToCrc32
    \/ WriteOffsetsRuns
    \/ WriteHashes
    \/ WriteOfLongListFails

\* Every call of write_to on a list of up to MaxRuns runs of entries.
CapacitySpec == CapacityInit /\ [][CapacityNext]_vars

\* C22: write_to given more than u32::MAX entries fails at its first
\* statement, before any byte is written; write_to given more than
\* 0x7FFFFFFF entries with a large offset fails inside the offsets loop and
\* never gets to the trailer; and every index into the table of large
\* offsets that is written with the high bit is below 2^31.
C22_CapacityLimitsAreFatal ==
    /\ (cpc # "assert" /\ ~BigLeq(EntriesLen(runs), U32_MAX))
            => cpc = "panicked" /\ written = <<>>
    /\ (cpc \notin {"assert", "sections", "offsets"} /\ ~BigLeq(LargeLen(runs), Threshold))
            => cpc \in {"panicked", "failed"} /\ written # SectionOrder
    /\ \A i \in 1..Len(stored) : stored[i].hi = 0
    /\ BigLeq(offsets64_len, Threshold)

\* The assertion inside the offsets loop failed on a list that is not too
\* long: 2^31 - 1 large offsets had been pushed, the five sections before
\* the offsets had been written.
C22_Witness ==
    /\ cpc = "panicked"
    /\ BigLeq(EntriesLen(runs), U32_MAX)
    /\ offsets64_len = Threshold
    /\ stored = <<BigPred(Threshold)>>
    /\ Len(written) = 5

-----------------------------------------------------------------------------
(* cache::delta::Tree: from_offsets_in_pack and traverse, as                *)
(* traverse_with_index calls them.  An entry [offset, kind, base, via, id] *)
(* is a pack entry at `offset`; a delta names the pack offset of its base, *)
(* NoOffset when the id -> offset callback misses, and stands at the end   *)
(* of a chain of `via` further OfsDelta entries between its base and       *)
(* itself, which have no other children.                                   *)

\* Largest number of entries handed to from_offsets_in_pack.
MaxTreeEntries == 3

\* level: u16
U16_MAX == 65535

\* Pack offsets are Spacing apart, which leaves room for the chain below a delta.
Spacing == 100000

NoOffset == 0

OffsetAt(i) == i * Spacing

\* Entries in pack offset order, or with the last two swapped.
OffsetOrders(n) ==
    {[i \in 1..n |-> OffsetAt(i)],
     [i \in 1..n |-> OffsetAt(IF i = n - 1 THEN n ELSE IF i = n /\ n > 1 THEN n - 1 ELSE i)]}

\* No chain, and the chains that put a delta of a root at the deepest level
\* and one below it.
Vias == {0, U16_MAX - 1, U16_MAX}

\* The ids of the objects in arrival order: all different, or all the same.
IdsOf(n) == {[i \in 1..n |-> n - i], [i \in 1..n |-> 0]}

TreeEntry(offset, kind, base, via, id) ==
    [offset |-> offset, kind |-> kind, base |-> base, via |-> via, id |-> id]

\* Every entry is a non-delta or an OfsDelta, which names the offset of an
\* entry below its own.
Shapes(offsets) ==
    {s \in [1..Len(offsets) -> [kind : {"blob", "ofs"},
                                base : {NoOffset} \cup {OffsetAt(i) : i \in 1..Len(offsets)}]] :
        \A i \in 1..Len(offsets) :
            IF s[i].kind = "blob" THEN s[i].base = NoOffset
            ELSE s[i].base # NoOffset /\ s[i].base < offsets[i]}

\* What one entry of the sequence may be instead: a RefDelta, for whose id the
\* callback finds nothing, the entry with the smallest or the one with the
\* largest offset; or, a delta already, the end of a chain.
Variants(n) ==
    [kind : {"ref"}, base : {NoOffset, OffsetAt(1), OffsetAt(n)}, via : {0}]
        \cup [kind : {"ofs"}, base : {NoOffset}, via : Vias]

EntriesOver(offsets) ==
    {[i \in 1..Len(offsets) |->
            IF i = special /\ variant.kind = "ref"
            THEN TreeEntry(offsets[i], "ref", variant.base, 0, ids[i])
            ELSE TreeEntry(offsets[i], shape[i].kind, shape[i].base,
                           IF i = special /\ shape[i].kind = "ofs" THEN variant.via ELSE 0,
                           ids[i])] :
        shape \in Shapes(offsets), special \in 1..Len(offsets),
        variant \in Variants(Len(offsets)), ids \in IdsOf(Len(offsets))}

EntrySequences ==
    {<<>>} \cup UNION {UNION {EntriesOver(offsets) : offsets \in OffsetOrders(n)} :
                        n \in 1..MaxTreeEntries}

\* A node of either vector; a root has no parent.
NoParent == [bucket |-> "none", idx |-> 0]

Node(entry, parent, level) ==
    [offset |-> entry.offset, id |-> entry.id, via |-> entry.via, parent |-> parent,
     level |-> level, children |-> <<>>]

EmptyTree == [err |-> "", roots |-> <<>>, children |-> <<>>]

\* memoize (offset -> (bucket, idx))
Memo(t) ==
    {[offset |-> t.roots[i].offset, bucket |-> "roots", idx |-> i] : i \in 1..Len(t.roots)}
        \cup {[offset |-> t.children[i].offset, bucket |-> "children", idx |-> i] :
                i \in 1..Len(t.children)}

NodeAt(t, ptr) == IF ptr.bucket = "roots" THEN t.roots[ptr.idx] ELSE t.children[ptr.idx]

\* The child is pushed, but no child list gets its index.
WithChild_Unlisted(t, ptr, child) == t

\* append child-index to parent's children
WithChild(t, ptr, child) ==
    IF ptr.bucket = "roots"
    THEN [t EXCEPT !.roots[ptr.idx].children = Append(@, child)]
    ELSE [t EXCEPT !.children[ptr.idx].children = Append(@, child)]

\* Insertion of one child index into a list sorted by pack offset.
RECURSIVE InsertByOffset(_, _, _)
InsertByOffset(t, sorted, child) ==
    IF sorted = <<>> THEN <<child>>
    ELSE IF t.children[child].offset < t.children[Head(sorted)].offset
    THEN <<child>> \o sorted
    ELSE <<Head(sorted)>> \o InsertByOffset(t, Tail(sorted), child)

RECURSIVE SortByOffset(_, _)
SortByOffset(t, list) ==
    IF list = <<>> THEN <<>>
    ELSE InsertByOffset(t, SortByOffset(t, Tail(list)), Head(list))

\* 4. Sort each node's child list by ascending pack offset.
SortChildLists(t) ==
    [t EXCEPT !.roots = [i \in 1..Len(t.roots) |->
                            [t.roots[i] EXCEPT !.children = SortByOffset(t, @)]],
              !.children = [i \in 1..Len(t.children) |->
                            [t.children[i] EXCEPT !.children = SortByOffset(t, @)]]]

\* A base that arrived earlier is taken whatever its offset.
AddEntry_NoOrderCheck(t, entry) ==
    IF entry.kind = "blob"
    THEN [t EXCEPT !.roots = Append(@, Node(entry, NoParent, 0))]
    ELSE LET found == {m \in Memo(t) : m.offset = entry.base}
         IN IF found = {} THEN [t EXCEPT !.err = "MissingBase"]
            ELSE LET m == CHOOSE m \in found : TRUE
                     ptr == [bucket |-> m.bucket, idx |-> m.idx]
                     level == NodeAt(t, ptr).level + entry.via + 1
                 IN IF level > U16_MAX THEN [t EXCEPT !.err = "ChainTooDeep"]
                    ELSE WithChild([t EXCEPT !.children = Append(@, Node(entry, ptr, level))],
                                   ptr, Len(t.children) + 1)

\* A chain may be as deep as it likes.
AddEntry_NoDepthCheck(t, entry) ==
    IF entry.kind = "blob"
    THEN [t EXCEPT !.roots = Append(@, Node(entry, NoParent, 0))]
    ELSE LET found == {m \in Memo(t) : m.offset = entry.base}
         IN IF found = {} THEN [t EXCEPT !.err = "MissingBase"]
            ELSE LET m == CHOOSE m \in found : TRUE
                     ptr == [bucket |-> m.bucket, idx |-> m.idx]
                     level == NodeAt(t, ptr).level + entry.via + 1
                 IN IF m.offset >= entry.offset THEN [t EXCEPT !.err = "OutOfOrderDelta"]
                    ELSE WithChild([t EXCEPT !.children = Append(@, Node(entry, ptr, level))],
                                   ptr, Len(t.children) + 1)

\* 2. and 3.: one entry is classified and pushed, or rejected.
AddEntry(t, entry) ==
    IF entry.kind = "blob"
    THEN [t EXCEPT !.roots = Append(@, Node(entry, NoParent, 0))]
    ELSE LET found == {m \in Memo(t) : m.offset = entry.base}
         IN IF found = {} THEN [t EXCEPT !.err = "MissingBase"]
            ELSE LET m == CHOOSE m \in found : TRUE
                     ptr == [bucket |-> m.bucket, idx |-> m.idx]
                     level == NodeAt(t, ptr).level + entry.via + 1
                 IN IF m.offset >= entry.offset THEN [t EXCEPT !.err = "OutOfOrderDelta"]
                    ELSE IF level > U16_MAX THEN [t EXCEPT !.err = "ChainTooDeep"]
                    ELSE WithChild([t EXCEPT !.children = Append(@, Node(entry, ptr, level))],
                                   ptr, Len(t.children) + 1)

\* Tree::from_offsets_in_pack: the entries are added as they arrive, the first
\* rejection ends the build without a tree.
RECURSIVE AddEntries(_, _, _)
AddEntries(t, entries, i) ==
    IF i > Len(entries) THEN SortChildLists(t)
    ELSE LET added == AddEntry(t, entries[i])
         IN IF added.err # "" THEN [EmptyTree EXCEPT !.err = added.err]
            ELSE AddEntries(added, entries, i + 1)

from_offsets_in_pack(entries) == AddEntries(EmptyTree, entries, 1)

\* The traversal closure of traverse_with_index has been started.
TreeInit ==
    /\ BundleIdle
    /\ TraverseIdle
    /\ EncodeIdle
    /\ CapacityIdle
    /\ LateIdle
    /\ sorted_entries \in EntrySequences
    /\ tree = EmptyTree
    /\ bpc = "build"
    /\ stacks = [w \in Workers |-> <<>>]
    /\ next_root = 1
    /\ processed = <<>>
    /\ stopped = {}
    /\ tresult = ""

treeOthers == <<bundleVars, traverseVars, capacityVars, lateVars>>

\* Tree::from_offsets_in_pack(..)?: an interrupted or rejected build returns
\* its error, a tree goes on to be traversed.
BuildTree ==
    /\ bpc = "build"
    /\ LET built == from_offsets_in_pack(sorted_entries)
           err == IF should_interrupt THEN "Interrupted" ELSE built.err
       IN /\ tree' = IF err = "" THEN built ELSE EmptyTree
          /\ tresult' = err
          /\ bpc' = IF err = "" THEN "traverse" ELSE "failed"
    /\ UNCHANGED <<treeOthers, encodeVars, should_interrupt, sorted_entries, stacks,
                   next_root, processed, stopped>>

Ptr(bucket, idx) == [bucket |-> bucket, idx |-> idx]

ChildPtrs(n) == [k \in 1..Len(n.children) |-> Ptr("children", n.children[k])]

\* Whether a node boundary lies ahead of the worker: a node of the subtree it
\* is in, or a root nobody has taken.
HasBoundary(w) == stacks[w] # <<>> \/ next_root <= Len(tree.roots)

\* The children of a node are visited last child first.
Visit_ChildrenReversed(w, at, rest) ==
    /\ processed' = Append(processed, [worker |-> w, node |-> at])
    /\ stacks' = [stacks EXCEPT ![w] =
                    [k \in 1..Len(NodeAt(tree, at).children) |->
                        ChildPtrs(NodeAt(tree, at))[Len(NodeAt(tree, at).children) + 1 - k]]
                        \o rest]

\* The processor is invoked on the node, and the node's children are next, in
\* the order of its child list, before anything else the worker has to do.
Visit(w, at, rest) ==
    /\ processed' = Append(processed, [worker |-> w, node |-> at])
    /\ stacks' = [stacks EXCEPT ![w] = ChildPtrs(NodeAt(tree, at)) \o rest]

\* The worker goes on although the flag is set.
WorkerStep_NoPoll(w) ==
    /\ bpc = "traverse"
    /\ w \notin stopped
    /\ HasBoundary(w)
    /\ IF stacks[w] = <<>>
       THEN /\ Visit(w, Ptr("roots", next_root), <<>>)
            /\ next_root' = next_root + 1
       ELSE /\ Visit(w, Head(stacks[w]), Tail(stacks[w]))
            /\ UNCHANGED next_root
    /\ UNCHANGED stopped
    /\ UNCHANGED <<treeOthers, encodeVars, should_interrupt, sorted_entries, tree, bpc,
                   tresult>>

\* One node boundary of a worker: with the flag set it abandons its subtree;
\* otherwise it goes on with the next node of the subtree it is in, or takes
\* the next root nobody has taken.
WorkerStep(w) ==
    /\ bpc = "traverse"
    /\ w \notin stopped
    /\ HasBoundary(w)
    /\ IF should_interrupt
       THEN /\ stopped' = stopped \cup {w}
            /\ stacks' = [stacks EXCEPT ![w] = <<>>]
            /\ UNCHANGED <<next_root, processed>>
       ELSE /\ IF stacks[w] = <<>>
               THEN /\ Visit(w, Ptr("roots", next_root), <<>>)
                    /\ next_root' = next_root + 1
               ELSE /\ Visit(w, Head(stacks[w]), Tail(stacks[w]))
                    /\ UNCHANGED next_root
            /\ UNCHANGED stopped
    /\ UNCHANGED <<treeOthers, encodeVars, should_interrupt, sorted_entries, tree, bpc,
                   tresult>>

\* All workers have returned: the join is Interrupted when one of them
\* abandoned its work.
JoinWorkers ==
    /\ bpc = "traverse"
    /\ \A w \in Workers : w \in stopped \/ ~HasBoundary(w)
    /\ tresult' = IF stopped = {} THEN "Ok" ELSE "Interrupted"
    /\ bpc' = IF stopped = {} THEN "sort" ELSE "failed"
    /\ UNCHANGED <<treeOthers, encodeVars, should_interrupt, sorted_entries, tree, stacks,
                   next_root, processed, stopped>>

\* Somebody stores true into should_interrupt.
TreeInterrupt ==
    /\ bpc \in {"build", "traverse"}
    /\ ~should_interrupt
    /\ should_interrupt' = TRUE
    /\ UNCHANGED <<treeOthers, encodeVars, sorted_entries, tree, bpc, stacks, next_root,
                   processed, stopped, tresult>>

\* index::Entry of a node as write_to takes it
ToIndexEntry(n) ==
    [id |-> [first_byte |-> n.id, rest |-> 0], crc32 |-> 0,
     offset |-> [hi |-> 0, lo |-> n.offset]]

\* The records in the order the processor was invoked.
IndexRecords_InProcessingOrder ==
    [i \in 1..Len(processed) |-> ToIndexEntry(NodeAt(tree, processed[i].node))]

\* traverse::Outcome { roots, children }: the processor fills in the data of
\* the node it is handed, the outcome is the two vectors of the tree.
IndexRecords ==
    [i \in 1..Len(tree.roots) |-> ToIndexEntry(tree.roots[i])]
        \o [i \in 1..Len(tree.children) |-> ToIndexEntry(tree.children[i])]

RECURSIVE InsertById(_, _)
InsertById(sorted, item) ==
    IF sorted = <<>> THEN <<item>>
    ELSE IF IdLess(item.id, Head(sorted).id) THEN <<item>> \o sorted
    ELSE <<Head(sorted)>> \o InsertById(Tail(sorted), item)

\* Sorted by object id, records of the same id in the order they came in.
RECURSIVE SortById(_)
SortById(items) ==
    IF items = <<>> THEN <<>>
    ELSE InsertById(SortById(SubSeq(items, 1, Len(items) - 1)), items[Len(items)])

\* Whether every entry of the pack is a node of its own.
NoChains == \A i \in 1..Len(sorted_entries) : sorted_entries[i].via = 0

\* The records are sorted by id and handed to write_to; the index of a pack
\* with a chain is not spelled out.
SortAndWriteIndex ==
    /\ bpc = "sort"
    /\ IF NoChains
       THEN /\ entries_sorted_by_oid' = SortById(IndexRecords)
            /\ pack_hash' = PackHash(2, <<>>)
            /\ wpc' = "header"
            /\ bpc' = "index"
       ELSE /\ bpc' = "done"
            /\ UNCHANGED <<entries_sorted_by_oid, pack_hash, wpc>>
    /\ UNCHANGED <<treeOthers, out, index_hash, should_interrupt, sorted_entries, tree,
                   stacks, next_root, processed, stopped, tresult>>

TreeNext ==
    \/ BuildTree
    \/ \E w \in Workers : WorkerStep(w)
    \/ JoinWorkers
    \/ TreeInterrupt
    \/ SortAndWriteIndex
    \/ EncodeNext

\* Every build and traversal of up to MaxTreeEntries entries by up to
\* MaxWorkers workers, and the index written from what they return.
TreeSpec == TreeInit /\ [][TreeNext]_vars

\* Every worker that can take a step takes it in the end.
FairTreeSpec ==
    /\ TreeSpec
    /\ WF_vars(BuildTree)
    /\ \A w \in Workers : WF_vars(WorkerStep(w))
    /\ WF_vars(JoinWorkers)

\* from_offsets_in_pack returned a tree.
TreeBuilt == bpc \in {"traverse", "sort", "index", "done"}

AllPtrs ==
    {Ptr("roots", i) : i \in 1..Len(tree.roots)}
        \cup {Ptr("children", i) : i \in 1..Len(tree.children)}

\* The places (node, position in its child list) that hold the child index c.
ListingsOf(c) ==
    {<<ptr, k>> \in AllPtrs \X (1..MaxTreeEntries) :
        k <= Len(NodeAt(tree, ptr).children) /\ NodeAt(tree, ptr).children[k] = c}

\* C23: in a tree that from_offsets_in_pack returned, every entry is exactly
\* one node, a root when it is not a delta and a child when it is, roots and
\* children together are as many as the entries, and every child is listed
\* once, in the child list of its parent and of no other node.
C23_EveryEntryExactlyOnce ==
    TreeBuilt =>
        /\ Len(tree.roots) + Len(tree.children) = Len(sorted_entries)
        /\ \A i \in 1..Len(sorted_entries) :
            /\ Cardinality({ptr \in AllPtrs :
                    NodeAt(tree, ptr).offset = sorted_entries[i].offset}) = 1
            /\ \E ptr \in AllPtrs :
                /\ NodeAt(tree, ptr).offset = sorted_entries[i].offset
                /\ ptr.bucket = "roots" <=> sorted_entries[i].kind = "blob"
        /\ \A r \in 1..Len(tree.roots) : tree.roots[r].parent = NoParent
        /\ \A c \in 1..Len(tree.children) :
            /\ Cardinality(ListingsOf(c)) = 1
            /\ \A l \in ListingsOf(c) : l[1] = tree.children[c].parent

\* A tree of three entries: a root, an OfsDelta of it and a RefDelta that the
\* callback resolved to it.
C23_Witness ==
    /\ TreeBuilt
    /\ Len(tree.roots) = 1
    /\ Len(tree.roots[1].children) = 2
    /\ \E i \in 1..Len(sorted_entries) : sorted_entries[i].kind = "ref"

\* The hops from a node to its root along the parent pointers, the deltas of
\* the chains counted; more than U16_MAX when no root is reached.
RECURSIVE HopsToRoot(_, _)
HopsToRoot(ptr, fuel) ==
    IF ptr.bucket = "roots" THEN 0
    ELSE IF ptr.bucket = "none" \/ fuel = 0 THEN U16_MAX + 1
    ELSE LET rest == HopsToRoot(tree.children[ptr.idx].parent, fuel - 1)
         IN IF rest > U16_MAX THEN rest
            ELSE rest + tree.children[ptr.idx].via + 1

\* C24: in a tree that from_offsets_in_pack returned, the parent of every
\* child, and the base of the chain a child ends, lies at a strictly smaller
\* pack offset than the child and its chain, and the parent pointers lead
\* from every child to a root in at most 65535 hops.
C24_ParentsBelowChildren ==
    TreeBuilt =>
        \A c \in 1..Len(tree.children) :
            /\ tree.children[c].parent \in AllPtrs
            /\ NodeAt(tree, tree.children[c].parent).offset
                    < tree.children[c].offset - tree.children[c].via
            /\ HopsToRoot(Ptr("children", c), MaxTreeEntries) <= U16_MAX

\* A child 65535 hops away from its root, and a child of the same root that
\* arrived after an entry of a larger offset.
C24_Witness ==
    /\ TreeBuilt
    /\ Len(tree.children) = 2
    /\ \E c \in 1..2 : HopsToRoot(Ptr("children", c), MaxTreeEntries) = U16_MAX
    /\ tree.children[1].offset > tree.children[2].offset

\* The bundle writer on a pack, or the tree builder on a list of entries.
BuildSpec == (Init \/ TreeInit) /\ [][(bpc = "off" /\ Next) \/ TreeNext]_vars

TreeErrors == {"MissingBase", "OutOfOrderDelta", "ChainTooDeep"}

\* The entries before the i-th that lie at the offset the i-th names as its base.
EarlierBases(entries, i) == {j \in 1..(i - 1) : entries[j].offset = entries[i].base}

\* How many deltas lie between the i-th entry and the non-delta its chain
\* starts from, the i-th included.
RECURSIVE ChainDepth(_, _)
ChainDepth(entries, i) ==
    IF entries[i].kind = "blob" \/ EarlierBases(entries, i) = {} THEN 0
    ELSE entries[i].via + 1
            + ChainDepth(entries, CHOOSE j \in EarlierBases(entries, i) : TRUE)

\* What is wrong with the i-th entry, "" when nothing is.
Rejection(entries, i) ==
    IF entries[i].kind = "blob" THEN ""
    ELSE IF EarlierBases(entries, i) = {} THEN "MissingBase"
    ELSE IF entries[i].base >= entries[i].offset THEN "OutOfOrderDelta"
    ELSE IF ChainDepth(entries, i) > U16_MAX THEN "ChainTooDeep"
    ELSE ""

FirstRejection(entries) ==
    LET bad == {i \in 1..Len(entries) : Rejection(entries, i) # ""}
    IN IF bad = {} THEN ""
       ELSE Rejection(entries, CHOOSE i \in bad : \A j \in bad : i <= j)

\* C25: a sequence with a delta whose base is not an earlier entry, whose
\* base lies at an offset not below its own, or whose chain is deeper than
\* u16::MAX is rejected: the build returns the error of the first such entry
\* (or Interrupted), no tree, and no node is ever processed; no other
\* sequence gets one of these errors; and a bundle writer that fails with
\* one of them has put nothing into the directory and keeps no index temp
\* file.
C25_BadSequencesRejected ==
    /\ bpc \notin {"off", "build"} =>
        /\ FirstRejection(sorted_entries) # "" =>
            /\ bpc = "failed"
            /\ tresult \in {FirstRejection(sorted_entries), "Interrupted"}
            /\ tree = EmptyTree
            /\ processed = <<>>
        /\ tresult \in TreeErrors => tresult = FirstRejection(sorted_entries)
    /\ (pc = "Failed" /\ result.err \in TreeErrors) =>
        /\ dir = {}
        /\ outcome = NoOutcome
        /\ "index" \notin tmp

\* A delta of a child at level 65535 was rejected as ChainTooDeep.
C25_Witness ==
    /\ bpc = "failed"
    /\ tresult = "ChainTooDeep"
    /\ Len(sorted_entries) = 3
    /\ sorted_entries[2].via = U16_MAX - 1
    /\ sorted_entries[3].base = sorted_entries[2].offset

\* The root of the subtree a node is in.
RECURSIVE RootOf(_, _)
RootOf(ptr, fuel) ==
    IF ptr.bucket # "children" \/ fuel = 0 THEN ptr
    ELSE RootOf(tree.children[ptr.idx].parent, fuel - 1)

\* The children of a node as their parent pointers tell, lowest pack offset first.
RECURSIVE Ascending(_)
Ascending(cs) ==
    IF cs = {} THEN <<>>
    ELSE LET first == CHOOSE c \in cs :
                        \A d \in cs : tree.children[c].offset <= tree.children[d].offset
         IN <<Ptr("children", first)>> \o Ascending(cs \ {first})

RECURSIVE Flatten(_)
Flatten(seqs) == IF seqs = <<>> THEN <<>> ELSE Head(seqs) \o Flatten(Tail(seqs))

\* A subtree depth first, parent before children, siblings by ascending offset.
RECURSIVE DepthFirst(_, _)
DepthFirst(ptr, fuel) ==
    IF fuel = 0 THEN <<ptr>>
    ELSE LET kids == Ascending({c \in 1..Len(tree.children) : tree.children[c].parent = ptr})
         IN <<ptr>> \o Flatten([k \in 1..Len(kids) |-> DepthFirst(kids[k], fuel - 1)])

\* The nodes of one subtree in the order the processor was invoked on them.
RECURSIVE ProcessedOf(_, _)
ProcessedOf(root, log) ==
    IF log = <<>> THEN <<>>
    ELSE IF RootOf(Head(log).node, MaxTreeEntries) = root
    THEN <<Head(log).node>> \o ProcessedOf(root, Tail(log))
    ELSE ProcessedOf(root, Tail(log))

\* C26: when the traversal has returned Ok, the processor was invoked exactly
\* once on every node, all nodes of a root's subtree by the same worker, and
\* the invocations on the nodes of a subtree are in depth-first order,
\* parent before child, siblings by ascending pack offset, however the steps
\* of the workers interleaved.
C26_OncePerNodeDepthFirst ==
    (bpc \in {"sort", "index", "done"} /\ tresult = "Ok") =>
        /\ \A ptr \in AllPtrs :
            Cardinality({i \in 1..Len(processed) : processed[i].node = ptr}) = 1
        /\ \A i \in 1..Len(processed) : processed[i].node \in AllPtrs
        /\ \A i, j \in 1..Len(processed) :
            RootOf(processed[i].node, MaxTreeEntries) = RootOf(processed[j].node, MaxTreeEntries)
                => processed[i].worker = processed[j].worker
        /\ \A r \in 1..Len(tree.roots) :
            ProcessedOf(Ptr("roots", r), processed) = DepthFirst(Ptr("roots", r), MaxTreeEntries)

\* Two workers took a root each, and the second root was processed between
\* the first root and its child.
C26_Witness ==
    /\ tresult = "Ok"
    /\ Len(processed) = 3
    /\ processed[1].worker # processed[2].worker
    /\ processed[3].worker = processed[1].worker
    /\ processed[3].node.bucket = "children"

IsDelta(entry) == entry.kind # "blob"

IsNoDelta(entry) == entry.kind = "blob"

\* The records of a pack as its entries alone tell: the non-deltas as they
\* lie in the list, then the deltas as they lie in the list, sorted by id.
RecordsOf(entries) ==
    LET items == SelectSeq(entries, IsNoDelta) \o SelectSeq(entries, IsDelta)
    IN SortById([i \in 1..Len(items) |-> ToIndexEntry(items[i])])

AtWork(w) == w \notin stopped /\ HasBoundary(w)

\* C28: once the flag is set, the processor is not invoked again, and a
\* worker whose stack of nodes changes has abandoned it and stopped; and when
\* the flag is set while a worker of the traversal still has a node boundary
\* ahead, all workers return and the traversal returns Interrupted, which is
\* none of the other errors.
C28_InterruptStopsWorkers ==
    /\ [][should_interrupt =>
            /\ processed' = processed
            /\ \A w \in Workers :
                stacks'[w] # stacks[w] => stacks'[w] = <<>> /\ w \in stopped']_vars
    /\ (should_interrupt /\ bpc = "traverse" /\ \E w \in Workers : AtWork(w))
            ~> (bpc = "failed" /\ tresult = "Interrupted" /\ stopped # {}
                    /\ \A w \in Workers : ~AtWork(w))

\* Both workers abandoned their work after one of them had processed a root
\* and was inside its subtree.
C28_Witness ==
    /\ bpc = "failed"
    /\ tresult = "Interrupted"
    /\ stopped = Workers
    /\ Len(processed) = 1
    /\ Len(tree.children) > 0
    /\ next_root <= Len(tree.roots)

\* The iterator is about to be asked for an entry that is a RefDelta.
RefDeltaAhead ==
    /\ \/ pc = "stream" /\ rpc = "off"
       \/ rpc = "reading"
    /\ ~Exhausted
    /\ pulled < Len(input.entries)
    /\ input.entries[pulled + 1] = "ref"

\* What ends the iterator before the resolver sees the entry: the reader's
\* errors and the mismatch of the input's trailer.
ReadErrors == {"Interrupted", "Eof", "ChecksumMismatch"}

\* The pack offset of the last entry the iterator has yielded, 0 before the first.
LastOffset == pulled + Inserted(pulled)

\* C29: with a lookup function, a RefDelta that is read without a read error
\* and without a mismatch of the input's trailer
\* comes out of the iterator as the looked-up base, a non-delta, and right
\* behind it the delta as an OfsDelta whose base offset is the offset of that
\* base; their pack offsets lie above those of everything yielded before
\* and, where the entries are written out again, are the places they have in
\* the pack temp file; no pack put into the directory by a run with a lookup
\* function holds a RefDelta; and when the lookup finds nothing the iterator
\* ends with UnresolvedRefDelta, and a run that returns it has put nothing
\* into the directory.
C29_ThinPackResolved ==
    /\ (cfg.thin /\ RefDeltaAhead /\ Pull.items[1].kind \notin ReadErrors) =>
        IF cfg.odb
        THEN /\ Len(Pull.items) = 2
             /\ Pull.items[1].ok /\ Pull.items[1].kind = "blob"
             /\ Pull.items[2].ok /\ Pull.items[2].kind = "ofs"
             /\ Pull.items[2].base_offset = Pull.items[1].pack_offset
             /\ Pull.items[2].pack_offset = Pull.items[1].pack_offset + 1
             /\ LastOffset < Pull.items[1].pack_offset
             /\ \A i \in 1..Len(chunk) : chunk[i].ok =>
                    chunk[i].pack_offset < Pull.items[1].pack_offset
             /\ HasEntryWriter =>
                    /\ Len(data_file) <= Pull.items[1].pack_offset
                    /\ \A k \in 1..2 :
                        Pull.data[Pull.items[k].pack_offset + 1]
                            = EntryChunk(Pull.items[k].kind)
        ELSE /\ Pull.items = <<ErrItem("UnresolvedRefDelta")>>
             /\ Pull.done
    /\ \A f \in dir :
        (cfg.thin /\ f.ext = "pack") =>
            \A i \in 1..Len(f.content) : f.content[i] # EntryChunk("ref")
    /\ result.err = "UnresolvedRefDelta" =>
        /\ pc = "Failed"
        /\ dir = {}
        /\ outcome = NoOutcome

\* write_to_directory has written the pack of a thin pack of two RefDeltas
\* into the directory: four entries, bases and OfsDeltas in turn.
C29_Witness ==
    /\ pc = "Done"
    /\ cfg.thin /\ cfg.odb /\ cfg.directory
    /\ ~Eager
    /\ input.entries = <<"ref", "ref">>
    /\ emitted = <<"blob", "ofs", "blob", "ofs">>
    /\ \E f \in dir :
        /\ f.ext = "pack"
        /\ Len(f.content) = 6
        /\ \A i \in 1..4 : f.content[i + 1] = EntryChunk(emitted[i])

----------------------------------------------------------------------------
(* Round trip: the pack a call has placed is the input of a second call *)

\* The input a file's content is when it is read as a pack stream.
AsInput(content) ==
    IF content = <<>> THEN [header |-> 0, entries |-> <<>>, tail |-> "void"]
    ELSE LET closed == content[Len(content)].t = "trl"
             n == Len(content) - (IF closed THEN 2 ELSE 1)
             es == [i \in 1..n |-> content[i + 1].k]
         IN [header |-> content[1].v,
             entries |-> es,
             tail |-> IF ~closed THEN "none"
                      ELSE IF content[Len(content)].h = PackHash(content[1].v, es) THEN "ok"
                      ELSE "bad"]

\* The caller opens the pack file of a finished call and hands it to the bundle
\* writer again, with any options and a fresh directory: the reader delivers
\* the file's bytes.
FeedBack ==
    /\ run = 1
    /\ pc = "Done"
    /\ rpc \in {"off", "done"}
    /\ \E f \in dir :
        /\ f.ext = "pack"
        /\ input' = AsInput(f.content)
        /\ [i \in 1..Total' |-> InputChunk(i)'] = f.content
    /\ cfg' \in {c \in Configs : c.directory}
    /\ run' = 2
    /\ ref' = [result |-> result, dir |-> dir]
    /\ pc' = "start"
    /\ rpc' = "off"
    /\ intr_at' = [pc |-> "", polls_ahead |-> FALSE]
    /\ read_pos' = 0
    /\ pulled' = 0
    /\ it_done' = FALSE
    /\ chunk' = <<>>
    /\ queue' = <<>>
    /\ emitted' = <<>>
    /\ trailer' = NoHash
    /\ data_file' = <<>>
    /\ mmap' = <<>>
    /\ traversed' = 0
    /\ index_file' = <<>>
    /\ outcome' = NoOutcome
    /\ dir' = {}
    /\ tmp' = {}
    /\ result' = NoResult
    /\ info' = {}
    /\ UNCHANGED <<otherVars, should_interrupt>>

\* Two calls without input/output faults and without interruption, the second
\* on the pack the first has placed.
RoundTripSpec == Init /\ [][Program \/ FeedBack]_vars

PackAndIndex(files) == {f \in files : f.ext \in {"pack", "idx"}}

\* C30: when the pack a call of the bundle writer has placed is fed to the
\* bundle writer again, the second call succeeds with the data_hash and the
\* index_hash of the first and places a pack file and an index file with the
\* names and the bytes of the first call's files.
C30_RoundTripDeterministic ==
    (run = 2 /\ Terminal) =>
        /\ result.ok
        /\ result.index.data_hash = ref.result.index.data_hash
        /\ result.index.index_hash = ref.result.index.index_hash
        /\ PackAndIndex(dir) = PackAndIndex(ref.dir)

----------------------------------------------------------------------------
(* util::CountBytes: a writer that counts what its inner writer wrote *)

\* Largest number of calls on one CountBytes.
MaxCalls == 3

\* What the inner writer reports as written by one call: 0, 1, 2^31 - 1, 2^31,
\* 2^32 - 1 and 2^32 bytes.
WriteSizes ==
    {Big(0, 0), Big(0, 1), Threshold, Big(1, 0), U32_MAX, Big(2, 0)}

\* What no call on a CountBytes touches.
oldVars == <<bundleVars, should_interrupt, traverseVars, encodeVars, capacityVars, treeVars>>

OldIdle == BundleIdle /\ TraverseIdle /\ EncodeIdle /\ CapacityIdle /\ TreeIdle

\* CountBytes::new(inner)
CountInit ==
    /\ OldIdle
    /\ CountOthersIdle
    /\ count = Big(0, 0)
    /\ inner = [written |-> Big(0, 0), flushes |-> 0]
    /\ cret = "new"
    /\ clog = [calls |-> 0, flushes |-> 0, all_ok |-> TRUE, op |-> "new",
               before |-> Big(0, 0), n |-> Big(0, 0)]

CountLive == cret \notin {"off", "panic"} /\ clog.calls < MaxCalls

\* u32::try_from(written): None above u32::MAX
TryFromUsize(n) == [some |-> BigLeq(n, U32_MAX), v |-> n]

\* u32::checked_add
CheckedAdd(a, b) ==
    LET sum == BigAdd(a, b)
    IN [some |-> BigLeq(sum, U32_MAX), v |-> sum]

\* CountBytes::write: the inner writer has written `n` bytes of the buffer.
CountBytes_write ==
    /\ CountLive
    /\ \E n \in WriteSizes :
        LET as_u32 == TryFromUsize(n)
            sum == CheckedAdd(count, n)
            returned == IF ~as_u32.some THEN "panic"
                   ELSE IF ~sum.some THEN "Err"
                   ELSE "Ok"
        IN /\ inner' = [inner EXCEPT !.written = BigAdd(@, n)]
           /\ count' = IF returned = "Ok" THEN sum.v ELSE count
           /\ cret' = returned
           /\ clog' = [clog EXCEPT !.calls = @ + 1, !.op = "write", !.before = count,
                                   !.n = n, !.all_ok = @ /\ returned = "Ok"]
    /\ UNCHANGED <<oldVars, countOthers>>

\* self.inner.write(buf)? returns the inner writer's error.
CountBytes_write_InnerFails ==
    /\ CountLive
    /\ cret' = "Err"
    /\ clog' = [clog EXCEPT !.calls = @ + 1, !.op = "write", !.before = count,
                            !.n = Big(0, 0), !.all_ok = FALSE]
    /\ UNCHANGED <<oldVars, countOthers, count, inner>>

\* CountBytes::flush: self.inner.flush()
CountBytes_flush ==
    /\ CountLive
    /\ inner' = [inner EXCEPT !.flushes = @ + 1]
    /\ cret' \in {"Ok", "Err"}
    /\ clog' = [clog EXCEPT !.calls = @ + 1, !.flushes = @ + 1, !.op = "flush",
                            !.before = count, !.n = Big(0, 0)]
    /\ UNCHANGED <<oldVars, countOthers, count>>

CountNext ==
    \/ CountBytes_write
    \/ CountBytes_write_InnerFails
    \/ CountBytes_flush

\* Every sequence of up to MaxCalls calls on a new CountBytes.
CountSpec == CountInit /\ [][CountNext]_vars

\* C31: while every write has succeeded, count is the number of bytes the
\* inner writer has reported as written; a write after which the inner writer's
\* total since the last count would lie above 2^32 - 1 returns an error and
\* leaves count as it was; a flush leaves count as it was, and the inner
\* writer has been flushed as often as the CountBytes.
C31_CountBytesCounts ==
    /\ clog.all_ok => count = inner.written
    /\ (clog.op = "write" /\ ~BigLeq(BigAdd(clog.before, clog.n), U32_MAX)) =>
        /\ cret = "Err"
        /\ count = clog.before
    /\ clog.op = "flush" => count = clog.before
    /\ inner.flushes = clog.flushes

----------------------------------------------------------------------------
(* file::Transaction::commit *)

\* Largest number of edits of a transaction.
MaxEdits == 2

\* A prepared edit: Change::Update{log, new, ..} or Change::Delete{log, ..}, the
\* log mode, the kind of the new target, whether the previous object id
\* differs from the new one, and the lock prepare has taken.
Edit(change, mode, new, do_update) ==
    [change |-> change, mode |-> mode, new |-> new, do_update |-> do_update, lock |-> TRUE]

Edits ==
    {Edit("Update", m, n, d) : m \in {"Only", "AndReference"}, n \in {"Peeled", "Symbolic"},
                               d \in BOOLEAN}
    \cup {Edit("Delete", m, "Peeled", FALSE) : m \in {"Only", "AndReference"}}

PackedRefsModes ==
    {"DeletionsOnly", "DeletionsAndNonSymbolicUpdates",
     "DeletionsAndNonSymbolicUpdatesRemoveLooseSourceReference"}

FileInit ==
    /\ OldIdle
    /\ FileOthersIdle
    /\ updates \in SeqsUpTo(Edits, MaxEdits)
    /\ packed_refs \in PackedRefsModes
    /\ packed_transaction \in BOOLEAN
    /\ fpc = "updates"
    /\ change_at = 1
    /\ events = <<>>
    /\ commit_result = ""

Event(op, at) == [op |-> op, at |-> at]

delete_loose_refs ==
    packed_refs = "DeletionsAndNonSymbolicUpdatesRemoveLooseSourceReference"

\* return Err(..): the edits and the locks they still hold are dropped.
Return(value) ==
    /\ commit_result' = value
    /\ fpc' = "returned"
    /\ updates' = [i \in DOMAIN updates |-> [updates[i] EXCEPT !.lock = FALSE]]
    /\ UNCHANGED <<packed_refs, packed_transaction, change_at>>

\* reflog_create_or_append is called for a new object id that differs from the
\* previous one.
WritesReflog(c) == c.new = "Peeled" /\ c.do_update

\* The first loop, one change: the reflog, then the lock is kept for later,
\* committed or dropped.
PerformUpdate ==
    /\ fpc = "updates"
    /\ change_at <= Len(updates)
    /\ LET c == updates[change_at]
           logged == IF WritesReflog(c) THEN <<Event("reflog_write", change_at)>> ELSE <<>>
       IN IF c.change = "Delete"
          THEN /\ change_at' = change_at + 1
               /\ UNCHANGED <<updates, packed_refs, packed_transaction, fpc, events,
                              commit_result>>
          ELSE \/ /\ WritesReflog(c)
                  /\ events' = Append(events, Event("lock_drop", change_at))
                  /\ Return("CreateOrUpdateRefLog")
               \/ /\ delete_loose_refs
                  /\ events' = events \o logged
                  /\ change_at' = change_at + 1
                  /\ UNCHANGED <<updates, packed_refs, packed_transaction, fpc, commit_result>>
               \/ /\ ~delete_loose_refs
                  /\ c.mode = "AndReference"
                  /\ \/ /\ events' = events \o logged \o <<Event("lock_commit", change_at)>>
                        /\ change_at' = change_at + 1
                        /\ updates' = [updates EXCEPT ![change_at].lock = FALSE]
                        /\ UNCHANGED <<packed_refs, packed_transaction, fpc, commit_result>>
                     \/ /\ events' = events \o logged \o <<Event("lock_drop", change_at)>>
                        /\ Return("LockCommit")
               \/ /\ ~delete_loose_refs
                  /\ c.mode = "Only"
                  /\ events' = events \o logged \o <<Event("lock_drop", change_at)>>
                  /\ change_at' = change_at + 1
                  /\ updates' = [updates EXCEPT ![change_at].lock = FALSE]
                  /\ UNCHANGED <<packed_refs, packed_transaction, fpc, commit_result>>
    /\ UNCHANGED <<oldVars, fileOthers>>

\* The packed-refs transaction is left out.
AfterReflogs_WithoutPacked == "loose"

\* if let Some(t) = self.packed_transaction
AfterReflogs == IF packed_transaction THEN "packed" ELSE "loose"

\* A for loop has gone through all changes.
EndLoop ==
    /\ fpc \in {"updates", "reflogs"}
    /\ change_at > Len(updates)
    /\ fpc' = IF fpc = "updates" THEN "reflogs" ELSE AfterReflogs
    /\ change_at' = 1
    /\ UNCHANGED <<oldVars, fileOthers, updates, packed_refs, packed_transaction, events,
                   commit_result>>

\* The second loop, one change: std::fs::remove_file(&reflog_path) of a deletion.
DeleteReflog ==
    /\ fpc = "reflogs"
    /\ change_at <= Len(updates)
    /\ IF updates[change_at].change = "Update"
       THEN /\ change_at' = change_at + 1
            /\ UNCHANGED <<updates, packed_refs, packed_transaction, fpc, events,
                           commit_result>>
       ELSE \/ /\ \E op \in {"reflog_remove", "reflog_not_found"} :
                    events' = Append(events, Event(op, change_at))
               /\ change_at' = change_at + 1
               /\ UNCHANGED <<updates, packed_refs, packed_transaction, fpc, commit_result>>
            \/ /\ Return("DeleteReflog")
               /\ UNCHANGED events
    /\ UNCHANGED <<oldVars, fileOthers>>

\* t.commit().map_err(Error::PackedTransactionCommit)?
CommitPacked ==
    /\ fpc = "packed"
    /\ \/ /\ events' = Append(events, Event("packed_commit", 0))
          /\ fpc' = "loose"
          /\ UNCHANGED <<updates, packed_refs, packed_transaction, change_at, commit_result>>
       \/ /\ Return("PackedTransactionCommit")
          /\ UNCHANGED events
    /\ UNCHANGED <<oldVars, fileOthers>>

take_lock_and_delete(c) ==
    IF c.change = "Update" THEN delete_loose_refs /\ c.mode = "AndReference"
    ELSE c.mode = "AndReference"

\* The third loop, one change: the lock is taken out of the change, the loose
\* reference is removed and the lock dropped.
DeleteReference ==
    /\ fpc = "loose"
    /\ change_at <= Len(updates)
    /\ LET c == updates[change_at]
       IN IF ~take_lock_and_delete(c)
          THEN /\ change_at' = change_at + 1
               /\ UNCHANGED <<updates, packed_refs, packed_transaction, fpc, events,
                              commit_result>>
          ELSE IF ~c.lock
          THEN /\ Return("panic")
               /\ UNCHANGED events
          ELSE \/ /\ \E op \in {"ref_remove", "ref_not_found"} :
                       events' = events \o <<Event(op, change_at), Event("lock_drop", change_at)>>
                  /\ change_at' = change_at + 1
                  /\ updates' = [updates EXCEPT ![change_at].lock = FALSE]
                  /\ UNCHANGED <<packed_refs, packed_transaction, fpc, commit_result>>
               \/ /\ events' = Append(events, Event("lock_drop", change_at))
                  /\ Return("DeleteReference")
    /\ UNCHANGED <<oldVars, fileOthers>>

\* Ok(updates.into_iter().map(|edit| edit.update).collect())
ReturnOk ==
    /\ fpc = "loose"
    /\ change_at > Len(updates)
    /\ Return("Ok")
    /\ UNCHANGED <<oldVars, fileOthers, events>>

FileNext ==
    \/ PerformUpdate
    \/ EndLoop
    \/ DeleteReflog
    \/ CommitPacked
    \/ DeleteReference
    \/ ReturnOk

\* Every commit of a prepared transaction of up to MaxEdits edits, with every
\* failure of the file system.
FileSpec == FileInit /\ [][FileNext]_vars

Before(j, k) == j \in DOMAIN events /\ k \in DOMAIN events /\ j < k

ReflogRemovals == {"reflog_remove", "reflog_not_found"}

ReferenceRemovals == {"ref_remove", "ref_not_found"}

----------------------------------------------------------------------------
(* packed::Transaction: prepare and commit *)

\* Largest number of references of a packed-refs file: the names are 1..MaxRefs.
MaxRefs == 3

\* Largest number of edits handed to prepare.
MaxPackedEdits == 2

RefNames == 1..MaxRefs

\* packed::Reference: name, target and the peeled object, "" without one
PackedRef(name, target, object) == [name |-> name, target |-> target, object |-> object]

\* The references of a packed-refs file, sorted by name: each name is absent,
\* there, or there with a peeled object.
RefsOf(f) ==
    LET all == [i \in RefNames |->
                    PackedRef(i, "old", IF f[i] = "peeled" THEN "object" ELSE "")]
        Present(r) == f[r.name] # "absent"
    IN SelectSeq(all, Present)

\* packed::Buffer, and the reference at which its iterator yields an error.
Buffers ==
    UNION {{[some |-> TRUE, refs |-> RefsOf(f), bad_at |-> b] : b \in {0, Len(RefsOf(f))}} :
            f \in [RefNames -> {"absent", "plain", "peeled"}]}

\* RefEdit: Change::Delete, or Change::Update to a peeled or a symbolic target
RefEdit(name, change, new) == [name |-> name, change |-> change, new |-> new]

RefEdits ==
    {RefEdit(n, "Delete", "") : n \in RefNames}
    \cup {RefEdit(n, "Update", t) : n \in RefNames, t \in {"Peeled", "Symbolic"}}

header_line == PackedRef(0, "# pack-refs with: peeled fully-peeled sorted", "")

\* The packed-refs file a buffer was read from; without a buffer there is none.
FileOf(b) ==
    IF b.some THEN [exists |-> TRUE, lines |-> <<header_line>> \o b.refs]
    ELSE [exists |-> FALSE, lines |-> <<>>]

\* new_from_pack_and_lock(buffer, lock), into_transaction and new_empty(lock)
PackedInit ==
    /\ OldIdle
    /\ PackedOthersIdle
    /\ buffer \in Buffers \cup {[some |-> FALSE, refs |-> <<>>, bad_at |-> 0]}
    /\ given \in SeqsUpTo(RefEdits, MaxPackedEdits)
    /\ edits = [some |-> FALSE, list |-> <<>>]
    /\ lock = "open"
    /\ lock_file = <<>>
    /\ packed_refs_file = FileOf(buffer)
    /\ ppc = "prepare"
    /\ pret = ""

\* b.find_existing(name).is_ok()
find_existing(b, name) == \E i \in DOMAIN b.refs : b.refs[i].name = name

\* edits.retain(..): a deletion stays if there is no buffer or the buffer has it.
Retain(es) ==
    LET Keep(e) ==
            IF e.change = "Delete"
            THEN IF buffer.some THEN find_existing(buffer, e.name) ELSE TRUE
            ELSE TRUE
    IN SelectSeq(es, Keep)

\* prepare: the edits are filtered; without edits the lock is closed.
Prepare ==
    /\ ppc = "prepare"
    /\ LET kept == Retain(given)
       IN \/ /\ edits' = [some |-> TRUE, list |-> kept]
             /\ lock' = IF kept = <<>> THEN "closed" ELSE lock
             /\ ppc' = "commit"
             /\ pret' = "Ok"
          \/ /\ kept = <<>>
             /\ lock' = "dropped"
             /\ ppc' = "failed"
             /\ pret' = "CloseLock"
             /\ UNCHANGED edits
    /\ UNCHANGED <<oldVars, packedOthers, buffer, given, lock_file, packed_refs_file>>

\* Vec::sort_by on the names: stable.
RECURSIVE InsertByName(_, _)
InsertByName(sorted, e) ==
    IF sorted = <<>> THEN <<e>>
    ELSE IF sorted[Len(sorted)].name <= e.name THEN Append(sorted, e)
    ELSE Append(InsertByName(SubSeq(sorted, 1, Len(sorted) - 1), e), sorted[Len(sorted)])

RECURSIVE SortByName(_)
SortByName(es) ==
    IF es = <<>> THEN <<>>
    ELSE InsertByName(SortByName(SubSeq(es, 1, Len(es) - 1)), es[Len(es)])

\* write_edit: a deletion writes nothing, an update to an object id one line.
write_edit(e) ==
    IF e.change = "Delete" THEN [err |-> "", lines |-> <<>>]
    ELSE IF e.new = "Peeled" THEN [err |-> "", lines |-> <<PackedRef(e.name, "new", "")>>]
    ELSE [err |-> "panic", lines |-> <<>>]

\* On equal names the existing reference is written as well as the edit.
RECURSIVE Merge_KeepsReplaced(_, _, _, _, _)
Merge_KeepsReplaced(b, i, es, j, lines) ==
    IF i <= Len(b.refs) /\ b.bad_at = i THEN [err |-> "Iteration", lines |-> lines]
    ELSE IF i > Len(b.refs) /\ j > Len(es) THEN [err |-> "", lines |-> lines]
    ELSE IF j > Len(es) \/ (i <= Len(b.refs) /\ b.refs[i].name <= es[j].name)
    THEN Merge_KeepsReplaced(b, i + 1, es, j, Append(lines, b.refs[i]))
    ELSE LET w == write_edit(es[j])
         IN IF w.err # "" THEN [err |-> w.err, lines |-> lines]
            ELSE Merge_KeepsReplaced(b, i, es, j + 1, lines \o w.lines)

\* The loop of commit over the peeked existing reference `i` and the peeked
\* edit `j`: what it writes after the header, and how it ends.
RECURSIVE Merge(_, _, _, _, _)
Merge(b, i, es, j, lines) ==
    IF i <= Len(b.refs) /\ b.bad_at = i THEN [err |-> "Iteration", lines |-> lines]
    ELSE IF i > Len(b.refs) /\ j > Len(es) THEN [err |-> "", lines |-> lines]
    ELSE IF j > Len(es) \/ (i <= Len(b.refs) /\ b.refs[i].name < es[j].name)
    THEN Merge(b, i + 1, es, j, Append(lines, b.refs[i]))
    ELSE LET w == write_edit(es[j])
             equal == i <= Len(b.refs) /\ b.refs[i].name = es[j].name
         IN IF w.err # "" THEN [err |-> w.err, lines |-> lines]
            ELSE Merge(b, IF equal THEN i + 1 ELSE i, es, j + 1, lines \o w.lines)

Merged == Merge(buffer, 1, SortByName(edits.list), 1, <<>>)

\* commit without a failing write: nothing without edits; else the header and
\* the merge go into the lock file, which is committed if a reference line was
\* written, while the packed-refs file is removed if none was.
Commit ==
    /\ ppc = "commit"
    /\ ppc' = "returned"
    /\ IF edits.list = <<>>
       THEN /\ pret' = "Ok"
            /\ UNCHANGED <<lock, lock_file, packed_refs_file>>
       ELSE IF lock # "open"
       THEN /\ pret' = "panic"
            /\ UNCHANGED <<lock, lock_file, packed_refs_file>>
       ELSE LET m == Merged
                num_written_lines == Len(m.lines)
            IN /\ lock_file' = <<header_line>> \o m.lines
               /\ IF m.err # ""
                  THEN /\ pret' = m.err
                       /\ lock' = "dropped"
                       /\ UNCHANGED packed_refs_file
                  ELSE IF num_written_lines = 0
                  THEN /\ lock' = "dropped"
                       /\ IF packed_refs_file.exists
                          THEN /\ packed_refs_file' = [exists |-> FALSE, lines |-> <<>>]
                               /\ pret' = "Ok"
                          ELSE /\ pret' = "Io(NotFound)"
                               /\ UNCHANGED packed_refs_file
                  ELSE /\ lock' = "committed"
                       /\ packed_refs_file' = [exists |-> TRUE, lines |-> lock_file']
                       /\ pret' = "Ok"
    /\ UNCHANGED <<oldVars, packedOthers, buffer, given, edits>>

\* A write into the lock file, the removal or the commit of the lock fails.
CommitFails ==
    /\ ppc = "commit"
    /\ edits.list # <<>>
    /\ lock = "open"
    /\ ppc' = "returned"
    /\ pret' \in {"IoFault", "CommitFault"}
    /\ lock' = "dropped"
    /\ UNCHANGED <<oldVars, packedOthers, buffer, given, edits, lock_file, packed_refs_file>>

PackedNext ==
    \/ Prepare
    \/ Commit
    \/ CommitFails

\* prepare and commit on every transaction over up to MaxRefs packed references
\* and up to MaxPackedEdits edits.
PackedSpec == PackedInit /\ [][PackedNext]_vars

\* C33: prepare keeps of the edits it is given all but the deletions of
\* references that the packed-refs buffer does not hold, with a buffer and
\* without one; if it keeps none it closes the lock, and commit then leaves the
\* packed-refs file and the lock file as they are.
C33_PrepareDropsAbsentDeletions ==
    edits.some =>
        LET Stays(e) == ~(e.change = "Delete" /\ ~find_existing(buffer, e.name))
        IN /\ edits.list = SelectSeq(given, Stays)
           /\ edits.list = <<>> =>
                /\ lock = "closed"
                /\ lock_file = <<>>
                /\ packed_refs_file = FileOf(buffer)

Distinct(es) == \A i, j \in DOMAIN es : es[i].name = es[j].name => i = j

Names(es) == {es[i].name : i \in DOMAIN es}

Range(seq) == {seq[i] : i \in DOMAIN seq}

\* C35: when commit has committed the lock file for edits with pairwise
\* distinct names, the lines after the header have strictly ascending names and
\* are exactly: the existing references that no edit names, as they were, and
\* for every update a line with its name and its new target; no line has the
\* name of a deletion.
C35_CommitMerges ==
    (ppc = "returned" /\ lock = "committed" /\ Distinct(edits.list)) =>
        LET lines == Tail(packed_refs_file.lines)
            updated == {e \in Range(edits.list) : e.change = "Update"}
            deleted == {e \in Range(edits.list) : e.change = "Delete"}
            untouched == {r \in Range(buffer.refs) : r.name \notin Names(edits.list)}
        IN /\ pret = "Ok"
           /\ packed_refs_file.exists
           /\ packed_refs_file.lines[1] = header_line
           /\ \A i, j \in DOMAIN lines : i < j => lines[i].name < lines[j].name
           /\ Range(lines) = untouched \cup {PackedRef(e.name, "new", "") : e \in updated}
           /\ \A e \in deleted : e.name \notin Names(lines)

\* commit has written a file in which an existing reference with a peeled
\* object stays, one is replaced by an update and one is deleted.
C35_Witness ==
    /\ ppc = "returned"
    /\ lock = "committed"
    /\ buffer.refs = <<PackedRef(1, "old", "object"), PackedRef(2, "old", "object"),
                       PackedRef(3, "old", "")>>
    /\ edits.list = <<RefEdit(3, "Delete", ""), RefEdit(2, "Update", "Peeled")>>
    /\ packed_refs_file.lines
        = <<header_line, PackedRef(1, "old", "object"), PackedRef(2, "new", "")>>

\* C36: commit without edits returns Ok and leaves the packed-refs file as it
\* is; with edits, and no write failing, an error of the iterator over the
\* existing references is returned without the lock being committed and the
\* file stays; a merge that wrote no reference line removes the packed-refs
\* file, commits nothing and returns Ok; any other merge commits the lock file.
C36_CommitOutcomes ==
    (ppc = "returned" /\ edits.some /\ pret \notin {"IoFault", "CommitFault", "panic"}) =>
        IF edits.list = <<>>
        THEN pret = "Ok" /\ packed_refs_file = FileOf(buffer) /\ lock # "committed"
        ELSE IF Merged.err = "Iteration"
        THEN pret = "Iteration" /\ packed_refs_file = FileOf(buffer) /\ lock # "committed"
        ELSE IF Merged.lines = <<>>
        THEN pret = "Ok" /\ ~packed_refs_file.exists /\ lock # "committed"
        ELSE pret = "Ok" /\ lock = "committed" /\ packed_refs_file.lines = lock_file

----------------------------------------------------------------------------
(* helper::Cascade::invoke with Action::get_for_url *)

\* Largest number of helpers of a cascade.
MaxHelpers == 3

\* The fixture scripts of the tests and what they print for a get: a failing
\* helper prints nothing and exits with an error.
HelperNames == {"username", "password", "custom-helper", "fail", "last-pass"}

Output(name) ==
    CASE name = "username" ->
            [ok |-> TRUE, username |-> "user", password |-> "", quit |-> FALSE]
      [] name = "password" ->
            [ok |-> TRUE, username |-> "", password |-> "pass", quit |-> FALSE]
      [] name = "custom-helper" ->
            [ok |-> TRUE, username |-> "user-script", password |-> "pass-script", quit |-> FALSE]
      [] name = "last-pass" ->
            [ok |-> TRUE, username |-> "user", password |-> "pass", quit |-> TRUE]
      [] OTHER ->
            [ok |-> FALSE, username |-> "", password |-> "", quit |-> FALSE]

\* invoke_cascade(names, Action::get_for_url(..)) with prompting disabled
CascadeInit ==
    /\ OldIdle
    /\ CascadeOthersIdle
    /\ programs \in SeqsUpTo(HelperNames, MaxHelpers)
    /\ next_program = 1
    /\ ctx = [username |-> "", password |-> "", quit |-> FALSE]
    /\ invoked = <<>>
    /\ hpc = "invoke"
    /\ identity = [some |-> FALSE, username |-> "", password |-> ""]

\* A value the helper printed replaces the one gathered before.
MergeOutcome_KeepsFirst(c, o) ==
    IF ~o.ok THEN c
    ELSE [username |-> IF c.username # "" THEN c.username ELSE o.username,
          password |-> IF c.password # "" THEN c.password ELSE o.password,
          quit |-> c.quit \/ o.quit]

\* What a helper printed fills or overwrites the fields; a failed helper
\* leaves them as they are.
MergeOutcome(c, o) ==
    IF ~o.ok THEN c
    ELSE [username |-> IF o.username # "" THEN o.username ELSE c.username,
          password |-> IF o.password # "" THEN o.password ELSE c.password,
          quit |-> c.quit \/ o.quit]

\* The cascade goes through all helpers whatever it has.
Complete_Never(c) == FALSE

\* Username and password are both there.
Complete(c) == c.username # "" /\ c.password # ""

\* The failure of a helper ends the cascade.
Continues_UnlessFailed(o, c) == o.ok /\ ~Complete(c)

\* After a helper the cascade goes on unless the credentials are complete.
Continues(o, c) == ~Complete(c)

Account(c) ==
    IF Complete(c) THEN [some |-> TRUE, username |-> c.username, password |-> c.password]
    ELSE [some |-> FALSE, username |-> "", password |-> ""]

\* The next helper is invoked and what it prints is taken over.
InvokeHelper ==
    /\ hpc = "invoke"
    /\ next_program <= Len(programs)
    /\ LET o == Output(programs[next_program])
           filled == MergeOutcome(ctx, o)
       IN /\ ctx' = filled
          /\ invoked' = Append(invoked, programs[next_program])
          /\ next_program' = IF Continues(o, filled) THEN next_program + 1
                             ELSE Len(programs) + 1
    /\ UNCHANGED <<oldVars, cascadeOthers, programs, hpc, identity>>

\* No helper is left: the account, if it is complete, is returned.
ReturnIdentity ==
    /\ hpc = "invoke"
    /\ next_program > Len(programs)
    /\ hpc' = "returned"
    /\ identity' = Account(ctx)
    /\ UNCHANGED <<oldVars, cascadeOthers, programs, next_program, ctx, invoked>>

CascadeNext == InvokeHelper \/ ReturnIdentity

\* Every cascade of up to MaxHelpers of the fixture helpers, for a get.
CascadeSpec == CascadeInit /\ [][CascadeNext]_vars

RECURSIVE Gathered(_)
\* What the first k helpers of the cascade print, taken together.
Gathered(k) ==
    IF k = 0 THEN [username |-> "", password |-> "", quit |-> FALSE]
    ELSE MergeOutcome(Gathered(k - 1), Output(programs[k]))

Identity(user, pass) == [some |-> TRUE, username |-> user, password |-> pass]

----------------------------------------------------------------------------
(* digest_statistics                                                        *)

\* Largest number of nodes of a digested tree, roots and children together.
MaxStatNodes == 2

\* Largest depth of a node below its root.
MaxLevel == 2

ObjectKinds == {"Blob", "Tree", "Tag", "Commit"}

\* The sizes an entry can have: compressed, decompressed, of the object.
EntrySizes ==
    {[compressed_size |-> 1, decompressed_size |-> 2, object_size |-> 3],
     [compressed_size |-> 2, decompressed_size |-> 5, object_size |-> 8]}

\* item.data of a node: a root is at level 0, a delta below it.
EntryData(levels) ==
    {[compressed_size |-> z.compressed_size, decompressed_size |-> z.decompressed_size,
      object_size |-> z.object_size, level |-> l, object_kind |-> k] :
        z \in EntrySizes, l \in levels, k \in ObjectKinds}

\* digest_statistics(traverse::Outcome { roots, children })
StatsInit ==
    /\ OldIdle
    /\ StatsOthersIdle
    /\ roots \in SeqsUpTo(EntryData({0}), MaxStatNodes)
    /\ children \in SeqsUpTo(EntryData(1..MaxLevel), MaxStatNodes)
    /\ Len(roots) + Len(children) <= MaxStatNodes
    /\ digested = 0
    /\ stats = DefaultStatistics
    /\ spc = "loop"

\* roots.iter().chain(children.iter())
Chain == roots \o children

\* *map.entry(key).or_insert(0) += 1
EntryOrInsert_Overwrites(map, key) ==
    [k \in DOMAIN map \cup {key} |-> IF k = key THEN 1 ELSE map[k]]

\* *map.entry(key).or_insert(0) += 1
EntryOrInsert(map, key) ==
    [k \in DOMAIN map \cup {key} |->
        IF k = key THEN (IF key \in DOMAIN map THEN map[key] ELSE 0) + 1 ELSE map[k]]

\* One pass of the loop: the sizes of the item go into the totals and into
\* the averages, its level into the histogram and its kind into the counts.
DigestItem ==
    /\ spc = "loop"
    /\ digested < Len(Chain)
    /\ LET data == Chain[digested + 1]
           average == stats.average
       IN stats' =
            [average |->
                [decompressed_size |-> average.decompressed_size + data.decompressed_size,
                 compressed_size |-> average.compressed_size + data.compressed_size,
                 object_size |-> average.object_size + data.object_size,
                 num_deltas |-> average.num_deltas + data.level],
             objects_per_chain_length |->
                EntryOrInsert(stats.objects_per_chain_length, data.level),
             total_compressed_entries_size |->
                stats.total_compressed_entries_size + data.compressed_size,
             total_decompressed_entries_size |->
                stats.total_decompressed_entries_size + data.decompressed_size,
             total_object_size |-> stats.total_object_size + data.object_size,
             num_commits |-> stats.num_commits + IF data.object_kind = "Commit" THEN 1 ELSE 0,
             num_trees |-> stats.num_trees + IF data.object_kind = "Tree" THEN 1 ELSE 0,
             num_tags |-> stats.num_tags + IF data.object_kind = "Tag" THEN 1 ELSE 0,
             num_blobs |-> stats.num_blobs + IF data.object_kind = "Blob" THEN 1 ELSE 0]
    /\ digested' = digested + 1
    /\ UNCHANGED <<oldVars, statsOthers, roots, children, spc>>

\* The loop is through.
EndOfChain ==
    /\ spc = "loop"
    /\ digested = Len(Chain)
    /\ spc' = "divide"
    /\ UNCHANGED <<oldVars, statsOthers, roots, children, digested, stats>>

\* let num_nodes = roots.len() + children.len(); average.* /= num_nodes; res
DivideByNumNodes ==
    /\ spc = "divide"
    /\ LET num_nodes == Len(roots) + Len(children)
           average == stats.average
       IN IF num_nodes = 0
          THEN spc' = "panic" /\ UNCHANGED stats
          ELSE /\ stats' = [stats EXCEPT !.average =
                    [decompressed_size |-> average.decompressed_size \div num_nodes,
                     compressed_size |-> average.compressed_size \div num_nodes,
                     object_size |-> average.object_size \div num_nodes,
                     num_deltas |-> average.num_deltas \div num_nodes]]
               /\ spc' = "returned"
    /\ UNCHANGED <<oldVars, statsOthers, roots, children, digested>>

StatsNext == DigestItem \/ EndOfChain \/ DivideByNumNodes

\* digest_statistics on every outcome of up to MaxStatNodes nodes.
StatsSpec == StatsInit /\ [][StatsNext]_vars

RECURSIVE SumOver(_, _)
\* The sum of f[i] over a finite set of indices.
SumOver(f, S) ==
    IF S = {} THEN 0
    ELSE LET i == CHOOSE j \in S : TRUE IN f[i] + SumOver(f, S \ {i})

\* The nodes of the chain that the predicate holds for.
NodesWith(P(_)) == Cardinality({i \in 1..Len(Chain) : P(Chain[i])})

\* The sum of one field over the nodes.
TotalOf(field) == SumOver([i \in 1..Len(Chain) |-> Chain[i][field]], 1..Len(Chain))

\* C37: in the statistics digest_statistics returns for n nodes, the counts of
\* the histogram add up to n and the count of a level is the number of nodes
\* at it, the four kind counts add up to n, each total is the sum of the
\* nodes' values, and each average is the integer quotient of its total by n.
C37_StatisticsAddUp ==
    spc = "returned" =>
        LET n == Len(roots) + Len(children)
            histogram == stats.objects_per_chain_length
        IN /\ SumOver(histogram, DOMAIN histogram) = n
           /\ \A l \in 0..MaxLevel :
                LET AtLevel(d) == d.level = l
                IN IF l \in DOMAIN histogram THEN histogram[l] = NodesWith(AtLevel)
                   ELSE NodesWith(AtLevel) = 0
           /\ DOMAIN histogram \subseteq 0..MaxLevel
           /\ stats.num_commits + stats.num_trees + stats.num_tags + stats.num_blobs = n
           /\ stats.total_compressed_entries_size = TotalOf("compressed_size")
           /\ stats.total_decompressed_entries_size = TotalOf("decompressed_size")
           /\ stats.total_object_size = TotalOf("object_size")
           /\ stats.average.compressed_size = TotalOf("compressed_size") \div n
           /\ stats.average.decompressed_size = TotalOf("decompressed_size") \div n
           /\ stats.average.object_size = TotalOf("object_size") \div n
           /\ stats.average.num_deltas = TotalOf("level") \div n

\* Statistics were returned for two nodes of one level whose sizes differ, so
\* that a count of the histogram is 2 and an average is rounded down.
C37_Witness ==
    /\ spc = "returned"
    /\ Len(roots) = 2
    /\ stats.objects_per_chain_length = (0 :> 2)
    /\ stats.total_compressed_entries_size = 3
    /\ stats.average.compressed_size = 1

----------------------------------------------------------------------------
(* traverse_with_index on a pack without objects                            *)

\* C40: traverse_with_index does not panic, whatever the pack, and for a
\* pack whose checksums match and whose objects all decode, traversed without
\* an interrupt, it returns Ok with the statistics, also when the pack has no
\* object at all (digest_statistics then divides by nothing).
C40_ReturnsStatisticsForEveryPack ==
    /\ ret # "Panic"
    /\ traversal_result # "Panic"
    /\ (/\ ret # ""
        /\ pack.verify = ""
        /\ \A i \in 1..Len(pack.nodes) : pack.nodes[i] = ""
        /\ ~should_interrupt) => ret = "Ok"

----------------------------------------------------------------------------
(* The handles on the pack temp file, from Arc::new to Arc::try_unwrap      *)

\* How far the number of objects goes beyond the threshold of the eager
\* iterator.
MaxOver == 1

\* EagerIterIf::new(.., pack_entries_iter, 5_000, 5): chunk_size and
\* chunks_in_flight
ChunkSize == 5000

ChunksInFlight == 5

\* Packs that are read on the calling thread, packs that are read by the
\* reading thread with and without a last chunk that is not full.
NumObjects ==
    {0, 1} \cup {EagerThreshold + d : d \in 0..MaxOver} \cup {6 * ChunkSize}

Calls ==
    [entry : {"write_to_directory", "write_to_directory_eagerly"},
     thin : BOOLEAN, directory : BOOLEAN, num_objects : NumObjects]

\* Both entry points are entered with a pack whose entries all decode.
HandleInit ==
    /\ OldIdle
    /\ HandleOthersIdle
    /\ call \in Calls
    /\ strong = 0
    /\ upc = "new"
    /\ reader = "off"
    /\ remaining = call.num_objects
    /\ partial = 0
    /\ channel = <<>>
    /\ got = 0

\* The iterator stack holds a clone of data_file: in LockWriter with a lookup
\* function in write_to_directory, in PassThrough without one in both entry
\* points, and nowhere with a lookup function in write_to_directory_eagerly.
IteratorHoldsClone ==
    IF call.thin THEN call.entry = "write_to_directory" ELSE TRUE

\* let data_file = Arc::new(parking_lot::Mutex::new(io::BufWriter::..))
ArcNew ==
    /\ upc = "new"
    /\ strong' = 1
    /\ upc' = "iterator"
    /\ UNCHANGED <<oldVars, handleOthers, call, reader, remaining, partial, channel, got>>

\* writer: data_file.clone() / writer: Some(data_file.clone())
BuildIterator ==
    /\ upc = "iterator"
    /\ strong' = IF IteratorHoldsClone THEN strong + 1 ELSE strong
    /\ upc' = IF call.entry = "write_to_directory_eagerly" THEN "eager_iter" ELSE "inner_write"
    /\ UNCHANGED <<oldVars, handleOthers, call, reader, remaining, partial, channel, got>>

\* EagerIterIf::new(move || num_objects > 25_000, ..): above the threshold the
\* iterator moves into the reading thread.
SpawnReader ==
    /\ upc = "eager_iter"
    /\ reader' = IF call.num_objects > EagerThreshold THEN "loop" ELSE "off"
    /\ upc' = "inner_write"
    /\ UNCHANGED <<oldVars, handleOthers, call, strong, remaining, partial, channel, got>>

\* inner_write: with a directory the resolver closure gets Arc::clone(&data_file),
\* without one data_file itself is moved into it.
CloneForResolver ==
    /\ upc = "inner_write"
    /\ strong' = IF call.directory THEN strong + 1 ELSE strong
    /\ upc' = "stream"
    /\ UNCHANGED <<oldVars, handleOthers, call, reader, remaining, partial, channel, got>>

\* The entries are over as soon as the index writer has taken as many as the
\* header announced.
IteratorEnded_WhenAllTaken == got = call.num_objects

\* The iterator returns None: on the calling thread when the pack is read,
\* with the reading thread when the channel is empty and hung up.
IteratorEnded ==
    IF reader = "off" THEN remaining = 0
    ELSE channel = <<>> /\ reader = "done"

\* write_data_iter_to_stream takes entries: all that are left on the calling
\* thread, or the next chunk of the channel.
TakeEntries ==
    /\ upc = "stream"
    /\ ~IteratorEnded
    /\ IF reader = "off"
       THEN /\ got' = got + remaining
            /\ remaining' = 0
            /\ UNCHANGED channel
       ELSE /\ channel # <<>>
            /\ got' = got + Head(channel)
            /\ channel' = Tail(channel)
            /\ UNCHANGED remaining
    /\ UNCHANGED <<oldVars, handleOthers, call, strong, upc, reader, partial>>

\* The entries are over; new_pack_file_resolver(data_file) is called and
\* drops its handle when it returns the lookup function, which holds the map.
CallResolver ==
    /\ upc = "stream"
    /\ IteratorEnded
    /\ strong' = strong - 1
    /\ upc' = "indexed"
    /\ UNCHANGED <<oldVars, handleOthers, call, reader, remaining, partial, channel, got>>

\* write_data_iter_to_stream returns and drops pack_entries_iter: the iterator
\* stack with its clone, or the receiving end of the channel.
DropIterator ==
    /\ upc = "indexed"
    /\ strong' = IF reader = "off" /\ IteratorHoldsClone THEN strong - 1 ELSE strong
    /\ upc' = IF call.directory THEN "unwrap" ELSE "returned"
    /\ UNCHANGED <<oldVars, handleOthers, call, reader, remaining, partial, channel, got>>

\* std::fs::write(&keep_path, b"")?; Arc::try_unwrap(data_file)
\*     .expect("only one handle left after pack was consumed")
TryUnwrap ==
    /\ upc = "unwrap"
    /\ IF strong = 1
       THEN strong' = 0 /\ upc' = "returned"
       ELSE UNCHANGED strong /\ upc' = "panicked"
    /\ UNCHANGED <<oldVars, handleOthers, call, reader, remaining, partial, channel, got>>

\* The reading thread fills its chunk and sends it when it is full; a full
\* channel makes it wait.
ReaderFill ==
    /\ reader = "loop"
    /\ remaining > 0
    /\ Len(channel) < ChunksInFlight
    /\ LET n == IF remaining < ChunkSize - partial THEN remaining ELSE ChunkSize - partial
       IN /\ remaining' = remaining - n
          /\ IF partial + n = ChunkSize
             THEN channel' = Append(channel, ChunkSize) /\ partial' = 0
             ELSE UNCHANGED channel /\ partial' = partial + n
    /\ UNCHANGED <<oldVars, handleOthers, call, strong, upc, reader, got>>

\* The loop of the reading thread ends and drops the iterator.
ReaderEndsLoop ==
    /\ reader = "loop"
    /\ remaining = 0
    /\ strong' = IF IteratorHoldsClone THEN strong - 1 ELSE strong
    /\ reader' = "send_rest"
    /\ UNCHANGED <<oldVars, handleOthers, call, upc, remaining, partial, channel, got>>

\* What is left of the last chunk is sent.
ReaderSendsRest ==
    /\ reader = "send_rest"
    /\ partial > 0 => Len(channel) < ChunksInFlight
    /\ channel' = IF partial > 0 THEN Append(channel, partial) ELSE channel
    /\ partial' = 0
    /\ reader' = "hang_up"
    /\ UNCHANGED <<oldVars, handleOthers, call, strong, upc, remaining, got>>

\* The thread returns and the sending end of the channel is dropped.
ReaderHangsUp ==
    /\ reader = "hang_up"
    /\ reader' = "done"
    /\ UNCHANGED <<oldVars, handleOthers, call, strong, upc, remaining, partial, channel, got>>

HandleNext ==
    \/ ArcNew
    \/ BuildIterator
    \/ SpawnReader
    \/ CloneForResolver
    \/ TakeEntries
    \/ CallResolver
    \/ DropIterator
    \/ TryUnwrap
    \/ ReaderFill
    \/ ReaderEndsLoop
    \/ ReaderSendsRest
    \/ ReaderHangsUp

\* Every call of both entry points on a pack that decodes, under every
\* interleaving of the calling thread and the reading thread.
HandleSpec == HandleInit /\ [][HandleNext]_vars

\* C38: when inner_write unwraps the shared pack temp file, exactly one handle
\* is left, so the expect of Arc::try_unwrap never panics, for both entry
\* points and under every interleaving with the reading thread.
C38_OneHandleLeft ==
    /\ upc = "unwrap" => strong = 1
    /\ upc # "panicked"

\* write_to_directory_eagerly has unwrapped the pack temp file of a pack that
\* the reading thread has read and whose last chunk was full.
C38_Witness ==
    /\ upc = "returned"
    /\ call.directory
    /\ call.entry = "write_to_directory_eagerly"
    /\ ~call.thin
    /\ call.num_objects = 6 * ChunkSize
    /\ reader = "done"
    /\ got = call.num_objects
    /\ strong = 0

----------------------------------------------------------------------------
(* The pack cannot be moved into place                                      *)

\* C39: when the flush or the rename of the pack fails after the .keep file
\* was written, an error is returned and the directory holds no
\* pack-<hash>.keep without the pack-<hash>.pack it stands for.
C39_NoOrphanedKeep ==
    (pc = "Failed" /\ result.err \in {"Flush", "PersistPack"})
        => /\ ~result.ok
           /\ \A h \in Stems : Has("keep", h) => Has("pack", h)

====
